---- MODULE Spec2Model ----
(***************************************************************************)
(* Packet codec of suroi: the MathProblem, MathAnswer, MathFeedback and    *)
(* Join packets (serialize / deserialize), over the byte stream, the       *)
(* definition registries and the packet dispatcher they are written        *)
(* against.                                                                *)
(*                                                                         *)
(* The packets' serialize and deserialize are translated from their        *)
(* source.  The stream primitives, the registry codec, the Packet wrapper  *)
(* and the dispatcher are not among the source files; they follow          *)
(* sections 4.1 - 4.3 and 7 of the specification, with these conventions   *)
(* fixed where the specification leaves a choice:                          *)
(*   - integers are big-endian;                                            *)
(*   - flag i of a boolean group is bit i of the group (least significant  *)
(*     bit first);                                                         *)
(*   - a string's length prefix is one byte when maxLength <= 255 and two  *)
(*     bytes otherwise;                                                    *)
(*   - a registry reference is byte-aligned: one byte for a registry of    *)
(*     at most 256 definitions, two bytes otherwise.                       *)
(* A thrown error is modelled as the stream's err field: once set, every   *)
(* later primitive of the same call is skipped, as the statements after a  *)
(* throw are.                                                              *)
(***************************************************************************)
EXTENDS Integers, Sequences, FiniteSets, TLC

VARIABLES
    pc,         \* "idle" | "sent" | "sendFailed" | "received"
    sent,       \* the packet handed to serialize: [kind, data]
    wire,       \* the bytes handed to the transport
    wops,       \* the stream primitives serialize performed
    tampered,   \* what the transport did to the bytes: "no" | "cut" | "retag"
    result,     \* what the receiver got: [err, routed, kind, data, ops, pos]
    sbuf,       \* one buffer and its stream: [phase, s, before, items, got, mark]
    activeProblem,  \* MathProblemManager.activeProblem: player id -> problem
    nextProblemId,  \* MathProblemManager.nextProblemId
    players,    \* per player: inventory items, dirty.items, packets sent to it
    client,     \* per player: the problem its client decoded last
    last,       \* the step taken last: [op, player, answer, problemId, packet, ret]
    rewards,    \* history: problemId -> the reward granted for it, and how often
    auth,       \* SuroiAuthManager: [currentUser, authCallbacks]
    api,        \* SuroiTimeBackAPI: [accessToken, inflight, http]
    notify,     \* position of the forEach over authCallbacks: None | <<[i, len, arg]>>
    renewing,   \* calls of signinSilent not settled yet
    hist,       \* history: [changes, regAt, heard] of the listeners
    aop         \* the step of the auth manager taken last: [op, cb, react]

codecVars == <<pc, sent, wire, wops, tampered, result>>
streamVars == <<sbuf>>
mgrVars == <<activeProblem, nextProblemId, players, client, last, rewards>>

authVars == <<auth, api, notify, renewing, hist, aop>>

vars == <<codecVars, streamVars, mgrVars, authVars>>

----------------------------------------------------------------------------
(* Bounds of the model *)

\* Definitions per registry (Loots, Badges, Emotes).
NDefs == 3
\* How many bytes beyond a field's maximum length an over-long string has.
Over == 1
\* Definitions a peer's registry holds beyond the receiver's (a registry
\* mismatch between the two ends).
ExtraDefs == 2
\* Capacities of the send buffer a caller may hand to serialize.
SmallCapacity == 5
Capacity == 512

----------------------------------------------------------------------------
(* Options: an optional field is <<>> (absent) or <<v>> (present). *)

None == <<>>
Some(v) == <<v>>
IsSome(o) == o # <<>>
Unwrap(o) == IF IsSome(o) THEN o[1] ELSE None

Min(a, b) == IF a <= b THEN a ELSE b

Pow2(n) == 2 ^ n

----------------------------------------------------------------------------
(* Stream: a cursor over a byte buffer of fixed capacity. *)

NewWriter(cap) ==
    [bytes |-> <<>>, pos |-> 0, bit |-> 0, cap |-> cap, err |-> "none", ops |-> <<>>]

NewReader(bs) ==
    [bytes |-> bs, pos |-> 0, bit |-> 0, cap |-> Len(bs), err |-> "none", ops |-> <<>>]

\* Fault: the bytes that still fit are written, and the cursor moved over
\* them, before the failure is raised.
WriteBytesPartial(s, bs, op) ==
    IF s.err # "none" THEN s
    ELSE IF s.pos + Len(bs) > s.cap
         THEN [s EXCEPT !.bytes = SubSeq(s.bytes, 1, s.pos) \o SubSeq(bs, 1, s.cap - s.pos),
                        !.pos = s.cap,
                        !.err = "CapacityExceeded"]
    ELSE [s EXCEPT !.bytes = SubSeq(s.bytes, 1, s.pos) \o bs,
                   !.pos = s.pos + Len(bs),
                   !.ops = Append(s.ops, op)]

\* Writes the bytes bs at the cursor as one primitive op, or fails whole.
WriteBytes(s, bs, op) ==
    IF s.err # "none" THEN s
    ELSE IF s.pos + Len(bs) > s.cap THEN [s EXCEPT !.err = "CapacityExceeded"]
    ELSE [s EXCEPT !.bytes = SubSeq(s.bytes, 1, s.pos) \o bs,
                   !.pos = s.pos + Len(bs),
                   !.ops = Append(s.ops, op)]

\* Fault: no check against the end of the data; what lies beyond it reads
\* as zero and the cursor moves on.
ReadBytesUnchecked(s, n, op) ==
    IF s.err # "none" THEN [s |-> s, v |-> <<>>]
    ELSE [s |-> [s EXCEPT !.pos = s.pos + n, !.ops = Append(s.ops, op)],
          v |-> [i \in 1..n |-> IF s.pos + i <= Len(s.bytes)
                                THEN s.bytes[s.pos + i] ELSE 0]]

\* Reads n bytes at the cursor as one primitive op, or fails whole.
ReadBytes(s, n, op) ==
    IF s.err # "none" THEN [s |-> s, v |-> <<>>]
    ELSE IF s.pos + n > Len(s.bytes)
         THEN [s |-> [s EXCEPT !.err = "Truncated"], v |-> <<>>]
    ELSE [s |-> [s EXCEPT !.pos = s.pos + n, !.ops = Append(s.ops, op)],
          v |-> SubSeq(s.bytes, s.pos + 1, s.pos + n)]

\* Big-endian bytes of the unsigned n-byte integer v (wrapped to its width).
RECURSIVE ToBytes(_, _)
ToBytes(v, n) ==
    IF n = 0 THEN <<>>
    ELSE Append(ToBytes((v % Pow2(8 * n)) \div 256, n - 1), v % 256)

RECURSIVE FromBytes(_)
FromBytes(bs) ==
    IF bs = <<>> THEN 0
    ELSE 256 * FromBytes(SubSeq(bs, 1, Len(bs) - 1)) + bs[Len(bs)]

WriteUint(s, v, n) == WriteBytes(s, ToBytes(v, n), <<"uint", 8 * n>>)

ReadUint(s, n) ==
    LET r == ReadBytes(s, n, <<"uint", 8 * n>>)
    IN  [s |-> r.s, v |-> FromBytes(r.v)]

writeUint8(s, v) == WriteUint(s, v, 1)
writeUint16(s, v) == WriteUint(s, v, 2)
\* A 32-bit value is the pair <<high 16 bits, low 16 bits>>: hi * 65536 + lo.
U32(hi, lo) == <<hi, lo>>
writeUint32(s, v) ==
    WriteBytes(s, ToBytes(v[1], 2) \o ToBytes(v[2], 2), <<"uint", 32>>)
readUint8(s) == ReadUint(s, 1)
readUint16(s) == ReadUint(s, 2)
readUint32(s) ==
    LET r == ReadBytes(s, 4, <<"uint", 32>>)
    IN  [s |-> r.s,
         v |-> IF Len(r.v) = 4
               THEN U32(FromBytes(SubSeq(r.v, 1, 2)), FromBytes(SubSeq(r.v, 3, 4)))
               ELSE U32(0, 0)]

\* Signed 16-bit: two's complement.
writeInt16(s, v) == WriteBytes(s, ToBytes(v % 65536, 2), <<"int", 16>>)

readInt16(s) ==
    LET r == ReadBytes(s, 2, <<"int", 16>>)
        u == FromBytes(r.v)
    IN  [s |-> r.s, v |-> IF u >= 32768 THEN u - 65536 ELSE u]

\* The group's value: flag i (from 1) is bit i - 1.
RECURSIVE PackFlags(_)
PackFlags(flags) ==
    IF flags = <<>> THEN 0
    ELSE (IF flags[1] THEN 1 ELSE 0) + 2 * PackFlags(Tail(flags))

UnpackFlags(v, n) == [i \in 1..n |-> (v \div Pow2(i - 1)) % 2 = 1]

\* Fault: the group takes only the bits of its flags; the bit cursor stays
\* inside the byte.
writeBooleanGroupPacked(s, flags) ==
    LET w == WriteBytes(s, ToBytes(PackFlags(flags), 1), <<"bool", 8>>)
    IN  IF w.err # "none" THEN w ELSE [w EXCEPT !.bit = Len(flags) % 8]

\* Up to 8 flags in one byte; the flags not given are false.  The group is
\* one primitive: it takes the whole byte, and the bit cursor, which moves
\* only inside the group, is back at 0 when the group is complete.
writeBooleanGroup(s, flags) ==
    WriteBytes(s, ToBytes(PackFlags(flags), 1), <<"bool", 8>>)

readBooleanGroup(s) ==
    LET r == ReadBytes(s, 1, <<"bool", 8>>)
    IN  [s |-> r.s, v |-> UnpackFlags(FromBytes(r.v), 8)]

\* Up to 16 flags in two bytes.
writeBooleanGroup2(s, flags) ==
    WriteBytes(s, ToBytes(PackFlags(flags), 2), <<"bool", 16>>)

readBooleanGroup2(s) ==
    LET r == ReadBytes(s, 2, <<"bool", 16>>)
    IN  [s |-> r.s, v |-> UnpackFlags(FromBytes(r.v), 16)]

\* Bytes of the length prefix of a string field of the given maximum length.
PrefixWidth(maxLength) == IF maxLength <= 255 THEN 1 ELSE 2

\* Length prefix, then at most maxLength bytes of str: longer input is cut.
writeString(s, maxLength, str) ==
    LET kept == SubSeq(str, 1, Min(Len(str), maxLength))
    IN  WriteBytes(s, ToBytes(Len(kept), PrefixWidth(maxLength)) \o kept,
                   <<"string", maxLength>>)

\* Reads the declared length and that many bytes.
readString(s, maxLength) ==
    LET w == PrefixWidth(maxLength)
        n == IF s.err = "none" /\ s.pos + w <= Len(s.bytes)
             THEN FromBytes(SubSeq(s.bytes, s.pos + 1, s.pos + w))
             ELSE 0
        r == ReadBytes(s, w + n, <<"string", maxLength>>)
    IN  [s |-> r.s, v |-> IF r.s.err = "none" /\ s.err = "none"
                          THEN SubSeq(r.v, w + 1, w + n) ELSE <<>>]

----------------------------------------------------------------------------
(* Definition registries: ordered catalogs addressed by position. *)

Loots == [name |-> "Loots", defs |-> [i \in 1..NDefs |-> <<"loot", i>>]]
Badges == [name |-> "Badges", defs |-> [i \in 1..NDefs |-> <<"badge", i>>]]
Emotes == [name |-> "Emotes", defs |-> [i \in 1..NDefs |-> <<"emote", i>>]]

Registries == {Loots, Badges, Emotes}

\* Bytes of a reference into reg.
RefWidth(reg) == IF Len(reg.defs) <= 256 THEN 1 ELSE 2

\* Position (from 0) of def in reg.
IndexOf(reg, def) == (CHOOSE i \in 1..Len(reg.defs) : reg.defs[i] = def) - 1

writeToStream(s, reg, def) ==
    WriteBytes(s, ToBytes(IndexOf(reg, def), RefWidth(reg)),
               <<reg.name, 8 * RefWidth(reg)>>)

\* Fault: no range check; an index beyond the registry reads undefined.
readFromStreamUnchecked(s, reg) ==
    LET r == ReadBytes(s, RefWidth(reg), <<reg.name, 8 * RefWidth(reg)>>)
        idx == FromBytes(r.v)
    IN  IF r.s.err # "none" THEN [s |-> r.s, v |-> None]
        ELSE IF idx >= Len(reg.defs) THEN [s |-> r.s, v |-> Some(<<"undefined", idx>>)]
        ELSE [s |-> r.s, v |-> Some(reg.defs[idx + 1])]

\* An index at or beyond the registry's size is a decode error.
readFromStream(s, reg) ==
    LET r == ReadBytes(s, RefWidth(reg), <<reg.name, 8 * RefWidth(reg)>>)
        idx == FromBytes(r.v)
    IN  IF r.s.err # "none" THEN [s |-> r.s, v |-> None]
        ELSE IF idx >= Len(reg.defs)
             THEN [s |-> [s EXCEPT !.err = "RegistryIndexOutOfRange"], v |-> None]
        ELSE [s |-> r.s, v |-> Some(reg.defs[idx + 1])]

----------------------------------------------------------------------------
(* MathFeedbackPacket *)

\* Fault: xpEarned is written whether present or not (zero when absent).
MathFeedbackSerializeAlways(stream, data) ==
    LET hasXpEarned == IsSome(data.xpEarned)
        hasTotalXP == IsSome(data.totalXP)
        s1 == writeBooleanGroup(stream, <<data.isCorrect, hasXpEarned, hasTotalXP>>)
        s2 == writeUint16(s1, data.problemId)
        s3 == writeUint16(s2, IF hasXpEarned THEN data.xpEarned[1] ELSE 0)
        s4 == IF hasTotalXP THEN writeUint32(s3, data.totalXP[1]) ELSE s3
    IN  s4

\* Fault: presence tested by truthiness (if (data.xpEarned)), so a value of
\* zero counts as absent.
MathFeedbackSerializeTruthy(stream, data) ==
    LET hasXpEarned == IsSome(data.xpEarned) /\ data.xpEarned # Some(0)
        hasTotalXP == IsSome(data.totalXP) /\ data.totalXP # Some(U32(0, 0))
        s1 == writeBooleanGroup(stream, <<data.isCorrect, hasXpEarned, hasTotalXP>>)
        s2 == writeUint16(s1, data.problemId)
        s3 == IF hasXpEarned THEN writeUint16(s2, data.xpEarned[1]) ELSE s2
        s4 == IF hasTotalXP THEN writeUint32(s3, data.totalXP[1]) ELSE s3
    IN  s4

MathFeedbackSerialize(stream, data) ==
    LET hasXpEarned == IsSome(data.xpEarned)
        hasTotalXP == IsSome(data.totalXP)
        s1 == writeBooleanGroup(stream, <<data.isCorrect, hasXpEarned, hasTotalXP>>)
        s2 == writeUint16(s1, data.problemId)
        s3 == IF hasXpEarned THEN writeUint16(s2, data.xpEarned[1]) ELSE s2
        s4 == IF hasTotalXP THEN writeUint32(s3, data.totalXP[1]) ELSE s3
    IN  s4

\* Fault: the two presence flags are taken from the group in the other
\* order.
MathFeedbackDeserializeSwappedFlags(stream) ==
    LET g == readBooleanGroup(stream)
        isCorrect == g.v[1]
        hasXpEarned == g.v[3]
        hasTotalXP == g.v[2]
        r1 == readUint16(g.s)
        r2 == IF hasXpEarned THEN readUint16(r1.s) ELSE [s |-> r1.s, v |-> 0]
        r3 == IF hasTotalXP THEN readUint32(r2.s) ELSE [s |-> r2.s, v |-> U32(0, 0)]
    IN  [s |-> r3.s,
         data |-> [isCorrect |-> isCorrect,
                   problemId |-> r1.v,
                   xpEarned |-> IF hasXpEarned THEN Some(r2.v) ELSE None,
                   totalXP |-> IF hasTotalXP THEN Some(r3.v) ELSE None]]

\* Fault: xpEarned is read whether its flag is set or not.
MathFeedbackDeserializeNoFlag(stream) ==
    LET g == readBooleanGroup(stream)
        isCorrect == g.v[1]
        hasXpEarned == g.v[2]
        hasTotalXP == g.v[3]
        r1 == readUint16(g.s)
        r2 == readUint16(r1.s)
        r3 == IF hasTotalXP THEN readUint32(r2.s) ELSE [s |-> r2.s, v |-> U32(0, 0)]
    IN  [s |-> r3.s,
         data |-> [isCorrect |-> isCorrect,
                   problemId |-> r1.v,
                   xpEarned |-> IF hasXpEarned THEN Some(r2.v) ELSE None,
                   totalXP |-> IF hasTotalXP THEN Some(r3.v) ELSE None]]

\* Fault: a catch-all around the reads, so that whatever was decoded before
\* an error is returned as the payload.
MathFeedbackDeserializeCatch(stream) ==
    LET g == readBooleanGroup(stream)
        isCorrect == g.v[1]
        hasXpEarned == g.v[2]
        hasTotalXP == g.v[3]
        r1 == readUint16(g.s)
        r2 == IF hasXpEarned THEN readUint16(r1.s) ELSE [s |-> r1.s, v |-> 0]
        r3 == IF hasTotalXP THEN readUint32(r2.s) ELSE [s |-> r2.s, v |-> U32(0, 0)]
    IN  [s |-> [r3.s EXCEPT !.err = "none"],
         data |-> [isCorrect |-> isCorrect,
                   problemId |-> r1.v,
                   xpEarned |-> IF hasXpEarned THEN Some(r2.v) ELSE None,
                   totalXP |-> IF hasTotalXP THEN Some(r3.v) ELSE None]]

MathFeedbackDeserialize(stream) ==
    LET g == readBooleanGroup(stream)
        isCorrect == g.v[1]
        hasXpEarned == g.v[2]
        hasTotalXP == g.v[3]
        r1 == readUint16(g.s)
        r2 == IF hasXpEarned THEN readUint16(r1.s) ELSE [s |-> r1.s, v |-> 0]
        r3 == IF hasTotalXP THEN readUint32(r2.s) ELSE [s |-> r2.s, v |-> U32(0, 0)]
    IN  [s |-> r3.s,
         data |-> [isCorrect |-> isCorrect,
                   problemId |-> r1.v,
                   xpEarned |-> IF hasXpEarned THEN Some(r2.v) ELSE None,
                   totalXP |-> IF hasTotalXP THEN Some(r3.v) ELSE None]]

----------------------------------------------------------------------------
(* MathProblemPacket *)

\* Fault: the puzzle is written with a larger maximum length than it is read
\* with.
MathProblemSerializeWide(stream, data) ==
    LET s1 == writeString(stream, 64, data.problem)
        s2 == writeString(s1, 32, data.rewardType)
        s3 == writeUint8(s2, data.rewardCount)
        s4 == writeUint16(s3, data.problemId)
    IN  s4

MathProblemSerialize(stream, data) ==
    LET s1 == writeString(stream, 32, data.problem)
        s2 == writeString(s1, 32, data.rewardType)
        s3 == writeUint8(s2, data.rewardCount)
        s4 == writeUint16(s3, data.problemId)
    IN  s4

\* Fault: the reward kind is read with another maximum length than it was
\* written with.
MathProblemDeserializeWide(stream) ==
    LET r1 == readString(stream, 32)
        r2 == readString(r1.s, 64)
        r3 == readUint8(r2.s)
        r4 == readUint16(r3.s)
    IN  [s |-> r4.s,
         data |-> [problem |-> r1.v, rewardType |-> r2.v,
                   rewardCount |-> r3.v, problemId |-> r4.v]]

\* Fault: the two strings are read in the other order.
MathProblemDeserializeSwapped(stream) ==
    LET r1 == readString(stream, 32)
        r2 == readString(r1.s, 32)
        r3 == readUint8(r2.s)
        r4 == readUint16(r3.s)
    IN  [s |-> r4.s,
         data |-> [problem |-> r2.v, rewardType |-> r1.v,
                   rewardCount |-> r3.v, problemId |-> r4.v]]

MathProblemDeserialize(stream) ==
    LET r1 == readString(stream, 32)
        r2 == readString(r1.s, 32)
        r3 == readUint8(r2.s)
        r4 == readUint16(r3.s)
    IN  [s |-> r4.s,
         data |-> [problem |-> r1.v, rewardType |-> r2.v,
                   rewardCount |-> r3.v, problemId |-> r4.v]]

----------------------------------------------------------------------------
(* MathAnswerPacket *)

MathAnswerSerialize(stream, data) ==
    LET s1 == writeInt16(stream, data.answer)
        s2 == writeUint16(s1, data.problemId)
    IN  s2

\* Fault: the answer is read as unsigned.
MathAnswerDeserializeUnsigned(stream) ==
    LET r1 == readUint16(stream)
        r2 == readUint16(r1.s)
    IN  [s |-> r2.s, data |-> [answer |-> r1.v, problemId |-> r2.v]]

MathAnswerDeserialize(stream) ==
    LET r1 == readInt16(stream)
        r2 == readUint16(r1.s)
    IN  [s |-> r2.s, data |-> [answer |-> r1.v, problemId |-> r2.v]]

----------------------------------------------------------------------------
(* JoinPacket *)

\* GameConstants.protocolVersion and GameConstants.player.nameMaxLength.
ProtocolVersion == 1
NameMaxLength == 16

writePlayerName(s, name) == writeString(s, NameMaxLength, name)
readPlayerName(s) == readString(s, NameMaxLength)

LT == 60
GT == 62
WhiteSpace == {9, 10, 11, 12, 13, 32}

\* Index of the first '>' of str after its first byte, 0 when there is none.
FirstGT(str) ==
    LET at == {k \in 2..Len(str) : str[k] = GT}
    IN  IF at = {} THEN 0 ELSE CHOOSE k \in at : \A j \in at : k <= j

\* str.split(/<[^>]+>/g).join(""): every leftmost match of '<', one or more
\* bytes other than '>', '>' is removed.
RECURSIVE StripTags(_)
StripTags(str) ==
    IF str = <<>> THEN <<>>
    ELSE IF str[1] = LT /\ FirstGT(str) >= 3
         THEN StripTags(SubSeq(str, FirstGT(str) + 1, Len(str)))
    ELSE <<str[1]>> \o StripTags(Tail(str))

\* str.trim()
RECURSIVE Trim(_)
Trim(str) ==
    IF str = <<>> THEN <<>>
    ELSE IF str[1] \in WhiteSpace THEN Trim(Tail(str))
    ELSE IF str[Len(str)] \in WhiteSpace THEN Trim(SubSeq(str, 1, Len(str) - 1))
    ELSE str

\* Fault: trimmed first, stripped after: whitespace next to a tag at an end
\* of the name is left.
SanitizeNameTrimFirst(str) == StripTags(Trim(str))

SanitizeName(str) == Trim(StripTags(str))

\* emotes[i] of a JavaScript array (i from 0): undefined beyond its length.
EmoteAt(emotes, i) == IF i + 1 <= Len(emotes) THEN emotes[i + 1] ELSE None

\* for (let i = from; i < 6; i++) { if (emote === undefined) continue; write }
RECURSIVE WriteEmotes(_, _, _)
WriteEmotes(s, emotes, i) ==
    IF i >= 6 THEN s
    ELSE WriteEmotes(IF IsSome(EmoteAt(emotes, i))
                     THEN writeToStream(s, Emotes, EmoteAt(emotes, i)[1])
                     ELSE s,
                     emotes, i + 1)

JoinSerialize(stream, data) ==
    LET emotes == data.emotes
        hasBadge == IsSome(data.badge)
        hasAuthToken == IsSome(data.authToken)
        hasStudentId == IsSome(data.studentId)
        s1 == writeBooleanGroup2(stream,
                  <<data.isMobile, hasBadge, hasAuthToken, hasStudentId,
                    IsSome(EmoteAt(emotes, 0)), IsSome(EmoteAt(emotes, 1)),
                    IsSome(EmoteAt(emotes, 2)), IsSome(EmoteAt(emotes, 3)),
                    IsSome(EmoteAt(emotes, 4)), IsSome(EmoteAt(emotes, 5))>>)
        s2 == writeUint16(s1, ProtocolVersion)
        s3 == writePlayerName(s2, data.name)
        s4 == writeToStream(s3, Loots, data.skin)
        s5 == IF hasBadge THEN writeToStream(s4, Badges, data.badge[1]) ELSE s4
        s6 == IF hasAuthToken THEN writeString(s5, 256, data.authToken[1]) ELSE s5
        s7 == IF hasStudentId THEN writeString(s6, 64, data.studentId[1]) ELSE s6
    IN  WriteEmotes(s7, emotes, 0)

\* The loop of deserialize over the flags after the first four: the stream
\* and the emotes array (8 slots) after slots i..5.
RECURSIVE ReadEmotes(_, _, _, _)
ReadEmotes(s, flags, arr, i) ==
    IF i >= 6 THEN [s |-> s, v |-> arr]
    ELSE IF ~flags[i + 1] THEN ReadEmotes(s, flags, arr, i + 1)
    ELSE LET r == readFromStream(s, Emotes)
         IN  ReadEmotes(r.s, flags, [arr EXCEPT ![i + 1] = r.v], i + 1)

\* Fault: the authToken and studentId presence flags are taken in the other
\* order from the group.
JoinDeserializeSwappedFlags(stream) ==
    LET g == readBooleanGroup2(stream)
        isMobile == g.v[1]
        hasBadge == g.v[2]
        hasStudentId == g.v[3]
        hasAuthToken == g.v[4]
        emotes == SubSeq(g.v, 5, 16)
        r1 == readUint16(g.s)
        r2 == readPlayerName(r1.s)
        r3 == readFromStream(r2.s, Loots)
        r4 == IF hasBadge THEN readFromStream(r3.s, Badges) ELSE [s |-> r3.s, v |-> None]
        r5 == IF hasAuthToken THEN readString(r4.s, 256) ELSE [s |-> r4.s, v |-> <<>>]
        r6 == IF hasStudentId THEN readString(r5.s, 64) ELSE [s |-> r5.s, v |-> <<>>]
        r7 == ReadEmotes(r6.s, emotes, [i \in 1..8 |-> None], 0)
    IN  [s |-> r7.s,
         data |-> [isMobile |-> isMobile,
                   protocolVersion |-> r1.v,
                   name |-> SanitizeName(r2.v),
                   skin |-> Unwrap(r3.v),
                   badge |-> r4.v,
                   authToken |-> IF hasAuthToken THEN Some(r5.v) ELSE None,
                   studentId |-> IF hasStudentId THEN Some(r6.v) ELSE None,
                   emotes |-> r7.v]]

JoinDeserialize(stream) ==
    LET g == readBooleanGroup2(stream)
        isMobile == g.v[1]
        hasBadge == g.v[2]
        hasAuthToken == g.v[3]
        hasStudentId == g.v[4]
        emotes == SubSeq(g.v, 5, 16)
        r1 == readUint16(g.s)
        r2 == readPlayerName(r1.s)
        r3 == readFromStream(r2.s, Loots)
        r4 == IF hasBadge THEN readFromStream(r3.s, Badges) ELSE [s |-> r3.s, v |-> None]
        r5 == IF hasAuthToken THEN readString(r4.s, 256) ELSE [s |-> r4.s, v |-> <<>>]
        r6 == IF hasStudentId THEN readString(r5.s, 64) ELSE [s |-> r5.s, v |-> <<>>]
        r7 == ReadEmotes(r6.s, emotes, [i \in 1..8 |-> None], 0)
    IN  [s |-> r7.s,
         data |-> [isMobile |-> isMobile,
                   protocolVersion |-> r1.v,
                   name |-> SanitizeName(r2.v),
                   skin |-> Unwrap(r3.v),
                   badge |-> r4.v,
                   authToken |-> IF hasAuthToken THEN Some(r5.v) ELSE None,
                   studentId |-> IF hasStudentId THEN Some(r6.v) ELSE None,
                   emotes |-> r7.v]]

----------------------------------------------------------------------------
(* Packet contract and dispatcher *)

PacketType == [Join |-> 1, MathProblem |-> 2, MathAnswer |-> 3, MathFeedback |-> 4]

Kinds == {"Join", "MathProblem", "MathAnswer", "MathFeedback"}

SerializeBody(kind, s, data) ==
    CASE kind = "Join" -> JoinSerialize(s, data)
      [] kind = "MathProblem" -> MathProblemSerialize(s, data)
      [] kind = "MathAnswer" -> MathAnswerSerialize(s, data)
      [] kind = "MathFeedback" -> MathFeedbackSerialize(s, data)

DeserializeBody(kind, s) ==
    CASE kind = "Join" -> JoinDeserialize(s)
      [] kind = "MathProblem" -> MathProblemDeserialize(s)
      [] kind = "MathAnswer" -> MathAnswerDeserialize(s)
      [] kind = "MathFeedback" -> MathFeedbackDeserialize(s)

\* The discriminant, then the packet's fields, at the cursor of stream s.
SerializeInto(s, kind, data) ==
    SerializeBody(kind, writeUint8(s, PacketType[kind]), data)

\* The discriminant, then the packet's fields, into a stream of capacity cap.
Serialize(kind, data, cap) == SerializeInto(NewWriter(cap), kind, data)

\* Fault: a discriminant no packet is registered under falls through to the
\* first decoder.
DispatchFallThrough(bytes) ==
    LET d == readUint8(NewReader(bytes))
        known == {k \in Kinds : PacketType[k] = d.v}
    IN  IF d.s.err # "none"
        THEN [err |-> d.s.err, routed |-> "none", data |-> None,
              ops |-> d.s.ops, pos |-> d.s.pos]
        ELSE LET kind == IF known = {} THEN "Join" ELSE CHOOSE k \in known : TRUE
                 r == DeserializeBody(kind, d.s)
             IN  [err |-> r.s.err, routed |-> kind,
                  data |-> IF r.s.err = "none" THEN Some(r.data) ELSE None,
                  ops |-> r.s.ops, pos |-> r.s.pos]

\* The decode entry point on a stream: reads the discriminant at the cursor,
\* looks the decoder up and runs it on what follows.  An error aborts the
\* decode: no payload is handed to the caller.
DispatchFrom(s) ==
    LET d == readUint8(s)
        known == {k \in Kinds : PacketType[k] = d.v}
    IN  IF d.s.err # "none"
        THEN [err |-> d.s.err, routed |-> "none", data |-> None,
              ops |-> d.s.ops, pos |-> d.s.pos]
        ELSE IF known = {}
        THEN [err |-> "UnknownDiscriminant", routed |-> "none", data |-> None,
              ops |-> d.s.ops, pos |-> Len(s.bytes)]
        ELSE LET kind == CHOOSE k \in known : TRUE
                 r == DeserializeBody(kind, d.s)
             IN  [err |-> r.s.err, routed |-> kind,
                  data |-> IF r.s.err = "none" THEN Some(r.data) ELSE None,
                  ops |-> r.s.ops, pos |-> r.s.pos]

\* The decode entry point on the bytes of one message.
Dispatch(bytes) == DispatchFrom(NewReader(bytes))

----------------------------------------------------------------------------
(* Inputs *)

\* A string of n bytes, none of them '<', '>' or whitespace.
Str(n, seed) == [i \in 1..n |-> 97 + ((i + seed) % 23)]

\* "3 + 4" and "gauze"
ThreePlusFour == <<51, 32, 43, 32, 52>>
Gauze == <<103, 97, 117, 122, 101>>

ProblemIds == {0, 7, 65535}

MathFeedbackPayloads ==
    [isCorrect : BOOLEAN,
     problemId : ProblemIds,
     xpEarned : {None, Some(0), Some(2), Some(65535)},
     totalXP : {None, Some(U32(0, 0)), Some(U32(1, 0)), Some(U32(65535, 65535))}]

MathAnswerPayloads ==
    [answer : {-32768, -1, 0, 7, 32767}, problemId : ProblemIds]

MathProblemPayloads ==
    [problem : {<<>>, ThreePlusFour, Str(32, 0), Str(32 + Over, 1)},
     rewardType : {Gauze, Str(32, 2), Str(32 + Over, 3)},
     rewardCount : {0, 3, 255},
     problemId : ProblemIds]

\* "Al", "<b>Al</b>" and " Al "
JoinNames ==
    {<<65, 108>>,
     <<60, 98, 62, 65, 108, 60, 47, 98, 62>>,
     <<32, 65, 108, 32>>}

\* Lengths of the strings of a Join payload: short, or longer than the
\* field's maximum.
Profiles == {"short", "over"}

TokenOf(profile) ==
    CASE profile = "short" -> Str(3, 4)
      [] profile = "over" -> Str(256 + Over, 6)

StudentIdOf(profile) ==
    CASE profile = "short" -> Str(2, 7)
      [] profile = "over" -> Str(64 + Over, 9)

ShiftOf(profile) ==
    CASE profile = "short" -> 0 [] profile = "over" -> 1

\* The payload with the given ten flags (isMobile, badge, authToken,
\* studentId, emote slots 0..5 present).
JoinPayload(flags, name, profile) ==
    [isMobile |-> flags[1],
     name |-> name,
     skin |-> Loots.defs[(ShiftOf(profile) % NDefs) + 1],
     badge |-> IF flags[2] THEN Some(Badges.defs[((ShiftOf(profile) + 1) % NDefs) + 1])
               ELSE None,
     authToken |-> IF flags[3] THEN Some(TokenOf(profile)) ELSE None,
     studentId |-> IF flags[4] THEN Some(StudentIdOf(profile)) ELSE None,
     emotes |-> [i \in 1..6 |->
                   IF flags[4 + i]
                   THEN Some(Emotes.defs[((i + ShiftOf(profile)) % NDefs) + 1])
                   ELSE None]]

JoinPayloads ==
    {JoinPayload(flags, name, profile) :
        flags \in [1..10 -> BOOLEAN], name \in JoinNames, profile \in Profiles}

Payloads(kind) ==
    CASE kind = "Join" -> JoinPayloads
      [] kind = "MathProblem" -> MathProblemPayloads
      [] kind = "MathAnswer" -> MathAnswerPayloads
      [] kind = "MathFeedback" -> MathFeedbackPayloads

\* The shortest encoding of each packet: no optional field, empty strings.
MinPayload(kind) ==
    CASE kind = "Join" -> JoinPayload([i \in 1..10 |-> FALSE], <<>>, "short")
      [] kind = "MathProblem" ->
            [problem |-> <<>>, rewardType |-> <<>>, rewardCount |-> 0, problemId |-> 0]
      [] kind = "MathAnswer" -> [answer |-> 0, problemId |-> 0]
      [] kind = "MathFeedback" ->
            [isCorrect |-> FALSE, problemId |-> 0, xpEarned |-> None, totalXP |-> None]

MinLen(kind) == Len(Serialize(kind, MinPayload(kind), Capacity).bytes)

\* The registry of a peer whose catalog holds ExtraDefs more definitions.
PeerRegistry(reg) ==
    [reg EXCEPT !.defs = reg.defs \o [i \in 1..ExtraDefs |-> <<"extra", i>>]]

RegistryNamed(name) == CHOOSE reg \in Registries : reg.name = name

\* Discriminants the transport may put in front of a message.
Tags == {PacketType.Join, PacketType.MathProblem, 99}

----------------------------------------------------------------------------
(* MathProblemManager *)

\* Players of the game, by id.
NPlayers == 2
Players == 1..NPlayers

\* Problems one run of the manager issues.
MaxProblems == 3
\* Problems a long-running manager has issued before the run starts.
LongRun == 65533

consumableItems ==
    <<<<103, 97, 117, 122, 101>>,                                 \* "gauze"
      <<109, 101, 100, 105, 107, 105, 116>>,                      \* "medikit"
      <<99, 111, 108, 97>>,                                       \* "cola"
      <<116, 97, 98, 108, 101, 116, 115>>,                        \* "tablets"
      <<49, 50, 103>>,                                            \* "12g"
      <<53, 53, 54, 109, 109>>,                                   \* "556mm"
      <<55, 54, 50, 109, 109>>,                                   \* "762mm"
      <<57, 109, 109>>,                                           \* "9mm"
      <<102, 114, 97, 103, 95, 103, 114, 101, 110, 97, 100, 101>>,\* "frag_grenade"
      <<115, 109, 111, 107, 101, 95, 103, 114, 101, 110, 97, 100, 101>>>>\* "smoke_grenade"

ItemAt(i) == consumableItems[i + 1]
ItemTypes == {consumableItems[i] : i \in 1..Len(consumableItems)}

\* The outcomes of random(min, max): an integer of min..max.
random(min, max) == min..max

\* Fault: the ammunition counts are drawn up to 300 instead of 30.
getRewardCountRounds(itemType) ==
    CASE itemType = ItemAt(0) -> random(2, 5)
      [] itemType \in {ItemAt(1), ItemAt(2), ItemAt(3)} -> {1}
      [] itemType = ItemAt(4) -> random(5, 15)
      [] itemType \in {ItemAt(5), ItemAt(6), ItemAt(7)} -> random(10, 300)
      [] itemType \in {ItemAt(8), ItemAt(9)} -> random(1, 2)
      [] OTHER -> {1}

\* The outcomes of getRewardCount(itemType).
getRewardCount(itemType) ==
    CASE itemType = ItemAt(0) -> random(2, 5)
      [] itemType \in {ItemAt(1), ItemAt(2), ItemAt(3)} -> {1}
      [] itemType = ItemAt(4) -> random(5, 15)
      [] itemType \in {ItemAt(5), ItemAt(6), ItemAt(7)} -> random(10, 30)
      [] itemType \in {ItemAt(8), ItemAt(9)} -> random(1, 2)
      [] OTHER -> {1}

\* `${n}`: the decimal digits of n, 0 <= n <= 99, as bytes.
Digits(n) == IF n < 10 THEN <<48 + n>> ELSE <<48 + (n \div 10), 48 + (n % 10)>>

\* " + ", " - ", " x " (U+00D7) and " / " (U+00F7), as UTF-8 bytes.
Plus == <<32, 43, 32>>
Minus == <<32, 45, 32>>
Times == <<32, 195, 151, 32>>
Divide == <<32, 195, 183, 32>>

\* The draws the state machine takes: "3 + 4" for 3 gauze and "81 / 9" for 2
\* smoke grenades.
Draws ==
    {[num1 |-> 3, num2 |-> 4, operation |-> 0, result |-> 1, divisor |-> 1,
      item |-> 0, count |-> 3],
     [num1 |-> 1, num2 |-> 1, operation |-> 3, result |-> 9, divisor |-> 9,
      item |-> 9, count |-> 2]}

\* Fault: the subtraction shows the operands as drawn, not the larger first.
PuzzleAsDrawn(d) ==
    CASE d.operation = 0 ->
            [problem |-> Digits(d.num1) \o Plus \o Digits(d.num2),
             answer |-> d.num1 + d.num2]
      [] d.operation = 1 ->
            [problem |-> Digits(d.num1) \o Minus \o Digits(d.num2),
             answer |-> d.num1 - d.num2]
      [] d.operation = 2 ->
            [problem |-> Digits(d.num1) \o Times \o Digits(d.num2),
             answer |-> d.num1 * d.num2]
      [] d.operation = 3 ->
            LET dividend == d.result * d.divisor
            IN  [problem |-> Digits(dividend) \o Divide \o Digits(d.divisor),
                 answer |-> d.result]
      [] OTHER ->
            [problem |-> Digits(d.num1) \o Plus \o Digits(d.num2),
             answer |-> d.num1 + d.num2]

\* The switch of generateProblem: the puzzle and its answer.
Puzzle(d) ==
    CASE d.operation = 0 ->
            [problem |-> Digits(d.num1) \o Plus \o Digits(d.num2),
             answer |-> d.num1 + d.num2]
      [] d.operation = 1 ->
            LET larger == IF d.num1 >= d.num2 THEN d.num1 ELSE d.num2
                smaller == IF d.num1 >= d.num2 THEN d.num2 ELSE d.num1
            IN  [problem |-> Digits(larger) \o Minus \o Digits(smaller),
                 answer |-> larger - smaller]
      [] d.operation = 2 ->
            [problem |-> Digits(d.num1) \o Times \o Digits(d.num2),
             answer |-> d.num1 * d.num2]
      [] d.operation = 3 ->
            LET dividend == d.result * d.divisor
            IN  [problem |-> Digits(dividend) \o Divide \o Digits(d.divisor),
                 answer |-> d.result]
      [] OTHER ->
            [problem |-> Digits(d.num1) \o Plus \o Digits(d.num2),
             answer |-> d.num1 + d.num2]

\* The draw is one the code can make: the count is an outcome of
\* getRewardCount for the item drawn.
PossibleDraw(d) == d.count \in getRewardCount(ItemAt(d.item))

\* Fault: the id is taken from nextProblemId without advancing it.
generateProblemReusesId(m, player, d) ==
    LET mathProblem == [problem |-> Puzzle(d).problem,
                        answer |-> Puzzle(d).answer,
                        rewardType |-> ItemAt(d.item),
                        rewardCount |-> d.count,
                        problemId |-> m.nextProblemId]
    IN  [m |-> [m EXCEPT !.activeProblem[player] = Some(mathProblem)],
         ret |-> mathProblem]

\* The manager's fields, m = [activeProblem, nextProblemId].  generateProblem
\* with the draws d: the manager after the call and the problem returned.
generateProblem(m, player, d) ==
    LET problemId == m.nextProblemId
        mathProblem == [problem |-> Puzzle(d).problem,
                        answer |-> Puzzle(d).answer,
                        rewardType |-> ItemAt(d.item),
                        rewardCount |-> d.count,
                        problemId |-> problemId]
    IN  [m |-> [activeProblem |-> [m.activeProblem EXCEPT ![player] = Some(mathProblem)],
                nextProblemId |-> m.nextProblemId + 1],
         ret |-> mathProblem]

\* mathProblemPacket.create({problem, rewardType, rewardCount, problemId})
MathProblemPacketOf(problem) ==
    [problem |-> problem.problem, rewardType |-> problem.rewardType,
     rewardCount |-> problem.rewardCount, problemId |-> problem.problemId]

\* player.sendPacket(packet): pl is the player's record [items, dirty, packets].
sendPacket(pl, packet) == [pl EXCEPT !.packets = Append(pl.packets, packet)]

\* Fault: the reward replaces the amount held instead of adding to it.
validateAnswerSetsAmount(m, pl, player, answer, problemId, d) ==
    LET active == m.activeProblem[player]
    IN  IF active = None \/ active[1].problemId # problemId
        THEN [m |-> m, pl |-> pl, ret |-> FALSE]
        ELSE LET isCorrect == active[1].answer = answer
             IN  IF isCorrect
                 THEN LET awarded == [pl EXCEPT
                                        !.items[active[1].rewardType] =
                                            active[1].rewardCount,
                                        !.dirty = TRUE]
                          removed == [m EXCEPT !.activeProblem[player] = None]
                          new == generateProblem(removed, player, d)
                      IN  [m |-> new.m,
                           pl |-> sendPacket(awarded, MathProblemPacketOf(new.ret)),
                           ret |-> isCorrect]
                 ELSE [m |-> m, pl |-> pl, ret |-> isCorrect]

\* Fault: the answered problem stays active: it is neither removed nor
\* replaced.
validateAnswerKeepsProblem(m, pl, player, answer, problemId, d) ==
    LET active == m.activeProblem[player]
    IN  IF active = None \/ active[1].problemId # problemId
        THEN [m |-> m, pl |-> pl, ret |-> FALSE]
        ELSE LET isCorrect == active[1].answer = answer
             IN  IF isCorrect
                 THEN LET currentAmount == pl.items[active[1].rewardType]
                          awarded == [pl EXCEPT
                                        !.items[active[1].rewardType] =
                                            currentAmount + active[1].rewardCount,
                                        !.dirty = TRUE]
                      IN  [m |-> m, pl |-> awarded, ret |-> isCorrect]
                 ELSE [m |-> m, pl |-> pl, ret |-> isCorrect]

\* Fault: a wrong answer, too, replaces the problem by a new one.
validateAnswerAlwaysReplaces(m, pl, player, answer, problemId, d) ==
    LET active == m.activeProblem[player]
    IN  IF active = None \/ active[1].problemId # problemId
        THEN [m |-> m, pl |-> pl, ret |-> FALSE]
        ELSE LET isCorrect == active[1].answer = answer
                 currentAmount == pl.items[active[1].rewardType]
                 awarded == IF isCorrect
                            THEN [pl EXCEPT
                                    !.items[active[1].rewardType] =
                                        currentAmount + active[1].rewardCount,
                                    !.dirty = TRUE]
                            ELSE pl
                 removed == [m EXCEPT !.activeProblem[player] = None]
                 new == generateProblem(removed, player, d)
             IN  [m |-> new.m,
                  pl |-> sendPacket(awarded, MathProblemPacketOf(new.ret)),
                  ret |-> isCorrect]

\* Fault: the problem is looked up by its id alone, whoever it is active
\* for; the answering player gets the reward and the next problem.
validateAnswerAnyPlayer(m, pl, player, answer, problemId, d) ==
    LET holders == {q \in DOMAIN m.activeProblem :
                        /\ m.activeProblem[q] # None
                        /\ m.activeProblem[q][1].problemId = problemId}
    IN  IF holders = {}
        THEN [m |-> m, pl |-> pl, ret |-> FALSE]
        ELSE LET active == m.activeProblem[CHOOSE q \in holders : TRUE]
                 isCorrect == active[1].answer = answer
             IN  IF isCorrect
                 THEN LET currentAmount == pl.items[active[1].rewardType]
                          awarded == [pl EXCEPT
                                        !.items[active[1].rewardType] =
                                            currentAmount + active[1].rewardCount,
                                        !.dirty = TRUE]
                          removed == [m EXCEPT !.activeProblem[player] = None]
                          new == generateProblem(removed, player, d)
                      IN  [m |-> new.m,
                           pl |-> sendPacket(awarded, MathProblemPacketOf(new.ret)),
                           ret |-> isCorrect]
                 ELSE [m |-> m, pl |-> pl, ret |-> isCorrect]

\* validateAnswer(player, answer, problemId), d the draws of the
\* generateProblem it calls: the manager and the player after the call, and
\* the value returned.
validateAnswer(m, pl, player, answer, problemId, d) ==
    LET active == m.activeProblem[player]
    IN  IF active = None \/ active[1].problemId # problemId
        THEN [m |-> m, pl |-> pl, ret |-> FALSE]
        ELSE LET isCorrect == active[1].answer = answer
             IN  IF isCorrect
                 THEN LET currentAmount == pl.items[active[1].rewardType]
                          awarded == [pl EXCEPT
                                        !.items[active[1].rewardType] =
                                            currentAmount + active[1].rewardCount,
                                        !.dirty = TRUE]
                          removed == [m EXCEPT !.activeProblem[player] = None]
                          new == generateProblem(removed, player, d)
                      IN  [m |-> new.m,
                           pl |-> sendPacket(awarded, MathProblemPacketOf(new.ret)),
                           ret |-> isCorrect]
                 ELSE [m |-> m, pl |-> pl, ret |-> isCorrect]

getCurrentProblem(m, player) == m.activeProblem[player]

removeProblem(m, player) == [m EXCEPT !.activeProblem[player] = None]

\* initializeProblem(player): the manager and the player after the call.
initializeProblem(m, pl, player, d) ==
    LET problem == generateProblem(m, player, d)
    IN  [m |-> problem.m,
         pl |-> sendPacket(pl, MathProblemPacketOf(problem.ret))]

\* What a player's client makes of a MathProblem packet: the payload decoded
\* from the packet's bytes.
ClientDecode(packet) ==
    Dispatch(Serialize("MathProblem", packet, Capacity).bytes).data

\* What the server makes of the MathAnswer packet a client sends.
ServerDecode(packet) ==
    Dispatch(Serialize("MathAnswer", packet, Capacity).bytes).data

\* The step taken last: the call, its player and arguments, the value
\* returned and, for an answer that came from the player's client, the
\* packet that client had decoded last.
NoCall ==
    [op |-> "none", player |-> 0, answer |-> 0, problemId |-> 0, packet |-> None,
     ret |-> None]

\* A new player: nothing in the inventory, no packet waiting to be sent.
NewPlayer == [items |-> [t \in ItemTypes |-> 0], dirty |-> FALSE, packets |-> <<>>]

\* A client that has decoded no packet yet.  Later it is <<[data, packet]>>:
\* the payload it decoded last and the packet that was sent.
NewClient == None

\* No reward granted yet.
NoRewards == [id \in {} |-> 0]

----------------------------------------------------------------------------
(* One stream through its life: a producer's writes, then a consumer's reads *)

\* Primitives, and whole packets, a caller puts on one stream.
MaxItems == 3
\* Flags of a two-byte group the model enumerates every assignment of (the
\* primitive takes up to 16).
MaxFlags2 == 10
\* Packets a producer puts back to back into one buffer.
MaxPackets == 3

\* An item is <<name, argument>>: a primitive with the value written, or a
\* packet kind with its payload.
WriteItem(s, item) ==
    CASE item[1] = "uint8" -> writeUint8(s, item[2])
      [] item[1] = "uint16" -> writeUint16(s, item[2])
      [] item[1] = "uint32" -> writeUint32(s, item[2])
      [] item[1] = "int16" -> writeInt16(s, item[2])
      [] item[1] = "bool" -> writeBooleanGroup(s, item[2])
      [] item[1] = "bool2" -> writeBooleanGroup2(s, item[2])
      [] item[1] = "string" -> writeString(s, item[2][1], item[2][2])
      [] item[1] \in Kinds -> SerializeInto(s, item[1], item[2])

\* The first n flags of a group read.
Flags(r, n) == [s |-> r.s, v |-> SubSeq(r.v, 1, n)]

\* A dispatcher's result r on stream s, as a read: the stream after it and
\* the payload handed to the caller.
Decoding(r, s) ==
    [s |-> [s EXCEPT !.pos = r.pos, !.err = r.err],
     v |-> [routed |-> r.routed, data |-> r.data]]

\* The read that matches the item: [s, v].  A group's reader takes the flags
\* it asked for, in order, from the front of the group.
ReadItem(s, item) ==
    CASE item[1] = "uint8" -> readUint8(s)
      [] item[1] = "uint16" -> readUint16(s)
      [] item[1] = "uint32" -> readUint32(s)
      [] item[1] = "int16" -> readInt16(s)
      [] item[1] = "bool" -> Flags(readBooleanGroup(s), Len(item[2]))
      [] item[1] = "bool2" -> Flags(readBooleanGroup2(s), Len(item[2]))
      [] item[1] = "string" -> readString(s, item[2][1])
      [] item[1] \in Kinds -> Decoding(DispatchFrom([s EXCEPT !.ops = <<>>]), s)

\* Every assignment of at most n flags.
Groups(n) == UNION {[1..k -> BOOLEAN] : k \in 0..n}

\* (true, false, true)
TFT == <<TRUE, FALSE, TRUE>>

\* One value of each primitive, for streams of several items.
SmallItems ==
    {<<"uint8", 255>>, <<"uint16", 65535>>, <<"uint32", U32(1, 0)>>,
     <<"int16", -1>>, <<"bool", TFT>>,
     <<"bool2", [i \in 1..10 |-> i % 2 = 1]>>,
     <<"string", <<32, ThreePlusFour>>>>}

\* A read of the wrong width, which a consumer out of step with the producer
\* performs.
WideRead == <<"uint32", U32(0, 0)>>

\* The packets a producer batches: of each type one with every optional
\* field and one with none.
BatchPayloads(kind) ==
    CASE kind = "Join" ->
            {JoinPayload([i \in 1..10 |-> FALSE], <<65, 108>>, "short"),
             JoinPayload([i \in 1..10 |-> TRUE],
                         <<60, 98, 62, 65, 108, 60, 47, 98, 62>>, "short")}
      [] kind = "MathProblem" ->
            {[problem |-> ThreePlusFour, rewardType |-> Gauze,
              rewardCount |-> 3, problemId |-> 7],
             [problem |-> <<>>, rewardType |-> <<>>, rewardCount |-> 0, problemId |-> 0]}
      [] kind = "MathAnswer" ->
            {[answer |-> 7, problemId |-> 7], [answer |-> -1, problemId |-> 65535]}
      [] kind = "MathFeedback" ->
            {[isCorrect |-> TRUE, problemId |-> 7, xpEarned |-> Some(2),
              totalXP |-> Some(U32(1, 0))],
             [isCorrect |-> FALSE, problemId |-> 0, xpEarned |-> None,
              totalXP |-> None]}

\* The buffer and its stream: the phase of its life, the stream s, the stream
\* before the last item (before) and that item (op), the items written and
\* the cursor after each (ends), what the reads returned (got), and the
\* producer's high-water mark.
NoStream ==
    [phase |-> "closed", s |-> NewWriter(0), before |-> NewWriter(0),
     op |-> <<"none", 0>>, items |-> <<>>, ends |-> <<>>, got |-> <<>>, mark |-> 0]

----------------------------------------------------------------------------
(* The state machine: one message from serialize to the decode entry point *)

NoResult == [err |-> "none", routed |-> "none", data |-> None, ops |-> <<>>, pos |-> 0]
NoPacket == [kind |-> "none", data |-> None]

----------------------------------------------------------------------------
(* SuroiAuthManager and SuroiTimeBackAPI *)

\* Callbacks the client registers.
NCallbacks == 2
Callbacks == 1..NCallbacks

\* Callbacks registered at once, auth state changes handled in a run,
\* signinSilent calls unsettled at once, submissions awaiting their
\* response at once, HTTP requests sent in a run.
MaxCallbacks == 3
MaxChanges == 2
MaxRenew == 1
MaxInflight == 1
MaxRequests == 2

\* The users the OIDC library hands over: profile.sub and access_token.
OidcUsers ==
    {[profile |-> Some([sub |-> 1]), access_token |-> <<116, 49>>],
     [profile |-> Some([sub |-> 2]), access_token |-> <<116, 50>>]}

\* createUser(authData): the user's sourcedId stands for the user.
createUser(authData) ==
    IF authData.profile = None THEN None ELSE Some(authData.profile[1].sub)

\* The API object, a = [accessToken, inflight, http]: the token (None for
\* null), the submissions awaiting their response, and the Authorization
\* tokens of the requests sent.
NewApi == [accessToken |-> None, inflight |-> 0, http |-> <<>>]

setAccessToken(a, token) == [a EXCEPT !.accessToken = Some(token)]

\* !this.accessToken: null and "" are falsy.
Falsy(token) == token = None \/ token[1] = <<>>

\* fetch(url, {headers: {Authorization: `Bearer ${this.accessToken}`}})
Fetch(a) == [a EXCEPT !.http = Append(@, a.accessToken)]

\* trackMathProblemEvent: the request is sent whatever the token is.
trackMathProblemEvent(a) == Fetch(a)

\* submitMathProblemResult up to its first await: the token check and the
\* first request.
submitMathProblemResult(a) ==
    IF Falsy(a.accessToken) THEN a ELSE [Fetch(a) EXCEPT !.inflight = @ + 1]

\* submitMathProblemResult after its await: the response is ok or not (a
\* fetch that throws ends the call like a response that is not ok).
SubmitResumed(a, ok) ==
    LET back == [a EXCEPT !.inflight = @ - 1]
    IN  IF ~ok THEN back ELSE trackMathProblemEvent(back)

trackGameEvent(a) == IF Falsy(a.accessToken) THEN a ELSE Fetch(a)

\* The manager's fields, m = [currentUser, authCallbacks].
NewAuth == [currentUser |-> None, authCallbacks |-> <<>>]

getCurrentUser(m) == m.currentUser

\* handleUserAuthenticated(user) up to the forEach: the manager, the API,
\* and what the forEach's callback passes on.
handleUserAuthenticated(m, a, user) ==
    [m |-> [m EXCEPT !.currentUser = createUser(user)],
     a |-> setAccessToken(a, user.access_token),
     arg |-> "currentUser"]

\* handleUserSignedOut() up to the forEach.
handleUserSignedOut(m, a) ==
    [m |-> [m EXCEPT !.currentUser = None],
     a |-> setAccessToken(a, <<>>),
     arg |-> "null"]

\* Array.prototype.forEach: the length is read once, the elements are read
\* as the loop reaches them, and an index the array has lost is passed over.
ForEach(list, arg) ==
    IF list = <<>> THEN None ELSE Some([i |-> 1, len |-> Len(list), arg |-> arg])

\* The loop after the callback at n.i returned, list being the array then.
Advance(n, list) ==
    IF n.i + 1 > n.len \/ n.i + 1 > Len(list)
    THEN None
    ELSE Some([n EXCEPT !.i = @ + 1])

\* What the loop's callback passes to a listener.
Passed(n, m) == IF n.arg = "null" THEN None ELSE m.currentUser

\* Array.prototype.indexOf, from 0; -1 when x is not in the list.
indexOf(list, x) ==
    IF \E i \in 1..Len(list) : list[i] = x
    THEN (CHOOSE i \in 1..Len(list) :
            list[i] = x /\ \A j \in 1..(i - 1) : list[j] # x) - 1
    ELSE -1

\* list.splice(index, 1)
Splice(list, index) == SubSeq(list, 1, index) \o SubSeq(list, index + 2, Len(list))

\* Fault: the index is tested with > 0, so the first callback stays.
removeAuthStateCallbackNotFirst(m, callback) ==
    LET index == indexOf(m.authCallbacks, callback)
    IN  IF index > 0
        THEN [m EXCEPT !.authCallbacks = Splice(@, index)]
        ELSE m

\* removeAuthStateCallback(callback)
removeAuthStateCallback(m, callback) ==
    LET index == indexOf(m.authCallbacks, callback)
    IN  IF index > -1
        THEN [m EXCEPT !.authCallbacks = Splice(@, index)]
        ELSE m

\* The listeners' history, h = [changes, regAt, heard]: the users of the
\* auth state changes handled; per callback, when it was registered last
\* ([at, user, once]: the changes handled by then, the current user then,
\* and whether it was not registered already) and the values it was called
\* with since.
NewHist ==
    [changes |-> <<>>,
     regAt |-> [c \in Callbacks |-> [at |-> 0, user |-> None, once |-> TRUE]],
     heard |-> [c \in Callbacks |-> <<>>]]

\* What a callback does when it is called: nothing, or one call of
\* removeAuthStateCallback or of onAuthStateChanged.
React ==
    {<<"none", 0>>} \cup {<<"remove", c>> : c \in Callbacks}
                    \cup {<<"register", c>> : c \in Callbacks}

\* this.authCallbacks.push(callback), noted in the history.
Pushed(s, callback) ==
    [m |-> [s.m EXCEPT !.authCallbacks = Append(@, callback)],
     h |-> [s.h EXCEPT !.regAt[callback] =
                            [at |-> Len(s.h.changes),
                             user |-> s.m.currentUser,
                             once |-> indexOf(s.m.authCallbacks, callback) = -1],
                       !.heard[callback] = <<>>]]

\* callback(value), noted in the history.
Heard(s, callback, value) ==
    [s EXCEPT !.h.heard[callback] = Append(@, value)]

\* s = [m, h] after the callback was called with value and did react; a
\* callback registered from inside a callback does nothing when called.
Called(s, callback, value, react) ==
    LET t == Heard(s, callback, value)
    IN  CASE react[1] = "remove" ->
                [t EXCEPT !.m = removeAuthStateCallback(t.m, react[2])]
          [] react[1] = "register" ->
                Heard(Pushed(t, react[2]), react[2], t.m.currentUser)
          [] OTHER -> t

\* onAuthStateChanged(callback): the push, and the call with the current
\* user.
onAuthStateChanged(s, callback, react) ==
    LET t == Pushed(s, callback)
    IN  Called(t, callback, t.m.currentUser, react)

\* No step of the auth manager yet.
NoStep == [op |-> "none", cb |-> 0, react |-> <<"none", 0>>]

AuthInit ==
    /\ auth = NewAuth
    /\ api = NewApi
    /\ notify = None
    /\ renewing = 0
    /\ hist = NewHist
    /\ aop = NoStep

\* No message in flight.
CodecInit ==
    /\ pc = "idle"
    /\ sent = NoPacket
    /\ wire = <<>>
    /\ wops = <<>>
    /\ tampered = "no"
    /\ result = NoResult

\* new MathProblemManager(), but for nextProblemId, which is first.
MgrInit(first) ==
    /\ activeProblem = [p \in Players |-> None]
    /\ nextProblemId = first
    /\ players = [p \in Players |-> NewPlayer]
    /\ client = [p \in Players |-> NewClient]
    /\ last = NoCall
    /\ rewards = NoRewards

Init ==
    /\ CodecInit
    /\ sbuf = NoStream
    /\ MgrInit(1)
    /\ AuthInit

\* A packet's serialize into a fresh stream of capacity cap.
Send(kind, data, cap) ==
    /\ pc = "idle"
    /\ LET s == Serialize(kind, data, cap)
       IN  /\ pc' = IF s.err = "none" THEN "sent" ELSE "sendFailed"
           /\ wire' = s.bytes
           /\ wops' = s.ops
           /\ result' = [NoResult EXCEPT !.err = s.err, !.pos = s.pos]
    /\ sent' = [kind |-> kind, data |-> data]
    /\ UNCHANGED <<tampered, streamVars, authVars, mgrVars>>

\* The transport delivers only the first n bytes, fewer than the packet's
\* minimal encoding.
Cut(n) ==
    /\ pc = "sent"
    /\ tampered = "no"
    /\ sent.kind \in Kinds
    /\ n < Len(wire)
    /\ n < MinLen(sent.kind)
    /\ wire' = SubSeq(wire, 1, n)
    /\ tampered' = "cut"
    /\ UNCHANGED <<pc, sent, wops, result, streamVars, authVars, mgrVars>>

\* The message arrives with another leading discriminant.
Retag(d) ==
    /\ pc = "sent"
    /\ tampered = "no"
    /\ sent.kind \in Kinds
    /\ wire[1] # d
    /\ wire' = [wire EXCEPT ![1] = d]
    /\ tampered' = "retag"
    /\ UNCHANGED <<pc, sent, wops, result, streamVars, authVars, mgrVars>>

\* The receiving side hands the bytes to the dispatcher.
Receive ==
    /\ pc = "sent"
    /\ sent.kind \in Kinds
    /\ result' = Dispatch(wire)
    /\ pc' = "received"
    /\ UNCHANGED <<sent, wire, wops, tampered, streamVars, authVars, mgrVars>>

\* A peer writes a reference to one definition of its registry.
SendRef(reg, def) ==
    /\ pc = "idle"
    /\ LET s == writeToStream(NewWriter(Capacity), PeerRegistry(reg), def)
       IN  /\ wire' = s.bytes
           /\ wops' = s.ops
    /\ sent' = [kind |-> "Ref", data |-> Some([registry |-> reg.name, def |-> def])]
    /\ pc' = "sent"
    /\ UNCHANGED <<tampered, result, streamVars, authVars, mgrVars>>

\* The receiver reads the reference against its own registry.
ReceiveRef ==
    /\ pc = "sent"
    /\ sent.kind = "Ref"
    /\ LET r == readFromStream(NewReader(wire), RegistryNamed(sent.data[1].registry))
       IN  result' = [err |-> r.s.err, routed |-> "none", data |-> r.v,
                      ops |-> r.s.ops, pos |-> r.s.pos]
    /\ pc' = "received"
    /\ UNCHANGED <<sent, wire, wops, tampered, streamVars, authVars, mgrVars>>

\* The stream is discarded; the next message starts from scratch.
Reset ==
    /\ pc \in {"received", "sendFailed"}
    /\ pc' = "idle"
    /\ sent' = NoPacket
    /\ wire' = <<>>
    /\ wops' = <<>>
    /\ tampered' = "no"
    /\ result' = NoResult
    /\ UNCHANGED <<streamVars, authVars, mgrVars>>

\* The packets and capacities a caller may hand to serialize.
SendAny ==
    /\ pc = "idle"
    /\ \/ \E kind \in Kinds \ {"Join"} : \E data \in Payloads(kind) :
             \E cap \in {SmallCapacity, Capacity} : Send(kind, data, cap)
       \/ \E flags \in [1..10 -> BOOLEAN] : \E name \in JoinNames :
             \E profile \in Profiles : \E cap \in {SmallCapacity, Capacity} :
                Send("Join", JoinPayload(flags, name, profile), cap)

SendAnyRef ==
    /\ pc = "idle"
    /\ \E reg \in Registries : \E i \in 1..(NDefs + ExtraDefs) :
          SendRef(reg, PeerRegistry(reg).defs[i])

Tamper ==
    /\ pc = "sent"
    /\ tampered = "no"
    /\ sent.kind \in Kinds
    /\ \/ \E n \in 0..(MinLen(sent.kind) - 1) : Cut(n)
       \/ \E d \in Tags : Retag(d)

Next ==
    \/ SendAny
    \/ SendAnyRef
    \/ Tamper
    \/ Receive
    \/ ReceiveRef
    \/ Reset

Spec == Init /\ [][Next]_vars

----------------------------------------------------------------------------
(* The state machine of one buffer: written by a producer, read by a consumer *)

\* An encode call creates a stream over a buffer of capacity cap.
Open(cap) ==
    /\ sbuf.phase = "closed"
    /\ sbuf' = [NoStream EXCEPT !.phase = "writing",
                                !.s = NewWriter(cap),
                                !.before = NewWriter(cap)]
    /\ UNCHANGED <<codecVars, mgrVars, authVars>>

\* The buffer b after the write of item left the stream as w.
Written(b, item, w) ==
    [b EXCEPT !.s = w,
              !.before = b.s,
              !.op = item,
              !.items = IF w.err = "none" THEN Append(@, item) ELSE @,
              !.ends = IF w.err = "none" THEN Append(@, w.pos) ELSE @,
              !.phase = IF w.err = "none" THEN "writing" ELSE "failed"]

\* The buffer b after the read of item returned r = [s, v].
Fetched(b, item, r) ==
    [b EXCEPT !.s = r.s,
              !.before = b.s,
              !.op = item,
              !.got = IF r.s.err = "none"
                      THEN Append(@, [name |-> item[1], v |-> r.v, pos |-> r.s.pos])
                      ELSE @,
              !.phase = IF r.s.err = "none" THEN "reading" ELSE "failed"]

\* The producer writes one item at the cursor.  A failure ends the call.
Write(item) ==
    /\ sbuf.phase = "writing"
    /\ sbuf' = Written(sbuf, item, WriteItem(sbuf.s, item))
    /\ UNCHANGED <<codecVars, mgrVars, authVars>>

\* The buffer is handed over: the decode call creates its stream over the
\* bytes the producer wrote.
Flip ==
    /\ sbuf.phase = "writing"
    /\ LET r == NewReader(SubSeq(sbuf.s.bytes, 1, sbuf.s.pos))
       IN  sbuf' = [sbuf EXCEPT !.phase = "reading",
                               !.s = r,
                               !.before = r,
                               !.op = <<"none", 0>>,
                               !.mark = sbuf.s.pos]
    /\ UNCHANGED <<codecVars, mgrVars, authVars>>

\* The consumer performs the read that matches item at the cursor.  A
\* failure ends the call.
Read(item) ==
    /\ sbuf.phase = "reading"
    /\ sbuf' = Fetched(sbuf, item, ReadItem(sbuf.s, item))
    /\ UNCHANGED <<codecVars, mgrVars, authVars>>

\* The stream is discarded with the call that owned it.
Close ==
    /\ sbuf.phase # "closed"
    /\ sbuf' = NoStream
    /\ UNCHANGED <<codecVars, mgrVars, authVars>>

OpenAny ==
    /\ pc = "idle"
    /\ \E cap \in {SmallCapacity, Capacity} : Open(cap)

\* Any primitive, while the call has fewer than MaxItems.
WriteSmall ==
    /\ sbuf.phase = "writing"
    /\ Len(sbuf.items) < MaxItems
    /\ \E item \in SmallItems : Write(item)

\* The consumer reads what the producer wrote next.
ReadNext ==
    /\ sbuf.phase = "reading"
    /\ Len(sbuf.got) < Len(sbuf.items)
    /\ Read(sbuf.items[Len(sbuf.got) + 1])

\* The consumer, out of step, reads four bytes wherever it is.
ReadWide ==
    /\ sbuf.phase = "reading"
    /\ Len(sbuf.got) <= Len(sbuf.items)
    /\ Read(WideRead)

StreamNext ==
    \/ OpenAny
    \/ WriteSmall
    \/ Flip
    \/ ReadNext
    \/ ReadWide
    \/ Close

StreamSpec == Init /\ [][StreamNext]_vars

\* A boolean group with every assignment of its flags.  The group is the
\* first field of the packets that have one.
WriteGroup ==
    /\ sbuf.phase = "writing"
    /\ sbuf.items = <<>>
    /\ \/ \E flags \in Groups(8) : Write(<<"bool", flags>>)
       \/ \E flags \in Groups(MaxFlags2) : Write(<<"bool2", flags>>)

\* A MathFeedback or a Join with every combination of its flags.
SendFlagged ==
    /\ pc = "idle"
    /\ sbuf.phase = "closed"
    /\ \/ \E data \in MathFeedbackPayloads : Send("MathFeedback", data, Capacity)
       \/ \E flags \in [1..10 -> BOOLEAN] :
             Send("Join", JoinPayload(flags, <<65, 108>>, "short"), Capacity)

GroupNext ==
    \/ OpenAny
    \/ WriteGroup
    \/ Flip
    \/ ReadNext
    \/ Close
    \/ SendFlagged
    \/ Receive
    \/ Reset

GroupSpec == Init /\ [][GroupNext]_vars

\* One more packet into the shared buffer.
WritePacket ==
    /\ sbuf.phase = "writing"
    /\ Len(sbuf.items) < MaxPackets
    /\ \E kind \in Kinds : \E data \in BatchPayloads(kind) : Write(<<kind, data>>)

BatchNext ==
    \/ OpenAny
    \/ WritePacket
    \/ Flip
    \/ ReadNext
    \/ Close

BatchSpec == Init /\ [][BatchNext]_vars

----------------------------------------------------------------------------
(* Join packets with any name on the wire *)

\* Bytes of the longest name enumerated.
MaxNameLen == 5

\* '<', '>', ' ' and 'a'
NameAlphabet == {LT, GT, 32, 97}

\* Every name of at most n bytes.
WireNames(n) == UNION {[1..k -> NameAlphabet] : k \in 0..n}

\* A client joins under any name.
SendNamed ==
    /\ pc = "idle"
    /\ sbuf.phase = "closed"
    /\ \E name \in WireNames(MaxNameLen) :
          Send("Join", JoinPayload([i \in 1..10 |-> FALSE], name, "short"), Capacity)

NameNext ==
    \/ SendNamed
    \/ Receive
    \/ Reset

NameSpec == Init /\ [][NameNext]_vars

----------------------------------------------------------------------------
(* The manager's state machine: the server's calls and the players' clients *)

\* The manager's fields.
Mgr == [activeProblem |-> activeProblem, nextProblemId |-> nextProblemId]

\* The run may issue another problem.
CanIssue ==
    \/ nextProblemId <= MaxProblems
    \/ nextProblemId > LongRun /\ nextProblemId <= LongRun + MaxProblems

\* The answers a client gives: those of the puzzles, and a wrong one.
Answers == {Puzzle(d).answer : d \in Draws} \cup {-1}

\* The call's outcome r = [m, pl] becomes the state; call is its record.
Returned(p, r, call) ==
    /\ activeProblem' = r.m.activeProblem
    /\ nextProblemId' = r.m.nextProblemId
    /\ players' = [players EXCEPT ![p] = r.pl]
    /\ last' = call

\* initializeProblem(player), with the draws d.
InitializeProblem(p, d) ==
    /\ CanIssue
    /\ PossibleDraw(d)
    /\ Returned(p, initializeProblem(Mgr, players[p], p, d),
                [NoCall EXCEPT !.op = "initializeProblem", !.player = p])
    /\ UNCHANGED <<client, rewards, codecVars, streamVars, authVars>>

\* generateProblem(player), with the draws d.
GenerateProblem(p, d) ==
    /\ CanIssue
    /\ PossibleDraw(d)
    /\ Returned(p, [m |-> generateProblem(Mgr, p, d).m, pl |-> players[p]],
                [NoCall EXCEPT !.op = "generateProblem", !.player = p])
    /\ UNCHANGED <<client, rewards, codecVars, streamVars, authVars>>

\* The history with one more reward for problem.
Granted(problem, p) ==
    LET id == problem.problemId
        times == IF id \in DOMAIN rewards THEN rewards[id].times ELSE 0
    IN  [i \in DOMAIN rewards \cup {id} |->
            IF i = id THEN [player |-> p, problem |-> problem, times |-> times + 1]
            ELSE rewards[i]]

\* The outcome r of validateAnswer becomes the state; a reward granted is
\* noted in the history.
Answered(p, answer, problemId, packet, r) ==
    /\ Returned(p, r,
                [NoCall EXCEPT !.op = "validateAnswer", !.player = p,
                               !.answer = answer, !.problemId = problemId,
                               !.packet = packet, !.ret = Some(r.ret)])
    /\ rewards' = IF r.pl.items # players[p].items /\ IsSome(activeProblem[p])
                  THEN Granted(activeProblem[p][1], p)
                  ELSE rewards

\* validateAnswer(player, answer, problemId), with the draws d of the
\* problem it generates.
ValidateAnswer(p, answer, problemId, d) ==
    /\ PossibleDraw(d)
    /\ Answered(p, answer, problemId, None,
                validateAnswer(Mgr, players[p], p, answer, problemId, d))
    /\ nextProblemId' > nextProblemId => CanIssue
    /\ UNCHANGED <<client, codecVars, streamVars, authVars>>

\* removeProblem(player)
RemoveProblem(p) ==
    /\ activeProblem[p] # None
    /\ Returned(p, [m |-> removeProblem(Mgr, p), pl |-> players[p]],
                [NoCall EXCEPT !.op = "removeProblem", !.player = p])
    /\ UNCHANGED <<client, rewards, codecVars, streamVars, authVars>>

\* The oldest packet waiting for player p goes out, and the player's client
\* decodes it.
ClientReceive(p) ==
    /\ players[p].packets # <<>>
    /\ client' = [client EXCEPT
                     ![p] = Some([data |-> ClientDecode(Head(players[p].packets))[1],
                                  packet |-> Head(players[p].packets)])]
    /\ players' = [players EXCEPT ![p].packets = Tail(@)]
    /\ last' = [NoCall EXCEPT !.op = "clientReceive", !.player = p]
    /\ UNCHANGED <<activeProblem, nextProblemId, rewards, codecVars, streamVars, authVars>>

\* The MathAnswer packet a client builds: its answer, and the problemId of
\* the problem it decoded.
Echo(data, answer) == [answer |-> answer, problemId |-> data.problemId]

\* The server's call for the MathAnswer packet it decoded as data.
Handled(p, data, packet, d) ==
    Answered(p, data.answer, data.problemId, packet,
             validateAnswer(Mgr, players[p], p, data.answer, data.problemId, d))

\* The client of player p answers the problem it decoded last; the server
\* decodes the MathAnswer packet and validates it.
ClientAnswer(p, answer, d) ==
    /\ IsSome(client[p])
    /\ PossibleDraw(d)
    /\ Handled(p, ServerDecode(Echo(client[p][1].data, answer))[1],
               Some(client[p][1].packet), d)
    /\ nextProblemId' > nextProblemId => CanIssue
    /\ UNCHANGED <<client, codecVars, streamVars, authVars>>

InitializeAny == \E p \in Players : \E d \in Draws : InitializeProblem(p, d)

GenerateAny == \E p \in Players : \E d \in Draws : GenerateProblem(p, d)

\* Any answer, with any problemId issued so far or about to be.
ValidateAny ==
    \E p \in Players : \E answer \in Answers : \E problemId \in 1..nextProblemId :
        \E d \in Draws : ValidateAnswer(p, answer, problemId, d)

RemoveAny == \E p \in Players : RemoveProblem(p)

ClientReceiveAny == \E p \in Players : ClientReceive(p)

ClientAnswerAny ==
    \E p \in Players : \E answer \in Answers : \E d \in Draws : ClientAnswer(p, answer, d)

\* The server's calls, in any order.
MgrNext ==
    \/ InitializeAny
    \/ GenerateAny
    \/ ValidateAny
    \/ RemoveAny

MgrSpec == Init /\ [][MgrNext]_vars

\* A manager that has issued LongRun problems, to players who have left.
LongRunInit ==
    /\ CodecInit
    /\ sbuf = NoStream
    /\ MgrInit(LongRun + 1)
    /\ AuthInit

\* The server's calls as the players' clients cause them.
LongRunNext ==
    \/ InitializeAny
    \/ RemoveAny
    \/ ClientReceiveAny
    \/ ClientAnswerAny

LongRunSpec == LongRunInit /\ [][LongRunNext]_vars

\* generateProblem for a player of a new manager, with every outcome of its
\* random draws: num1, num2 and operation; result (here quotient) and
\* divisor, which only a division draws; the item and its count.
GenerateDrawn ==
    /\ last.op = "none"
    /\ \E p \in Players :
       \E num1 \in random(1, 9) : \E num2 \in random(1, 9) :
       \E operation \in random(0, 3) :
       \E quotient \in IF operation = 3 THEN random(1, 9) ELSE {1} :
       \E divisor \in IF operation = 3 THEN random(1, 9) ELSE {1} :
       \E item \in random(0, Len(consumableItems) - 1) :
       \E count \in getRewardCount(ItemAt(item)) :
            GenerateProblem(p, [num1 |-> num1, num2 |-> num2,
                                operation |-> operation, result |-> quotient,
                                divisor |-> divisor, item |-> item,
                                count |-> count])

ProblemNext == GenerateDrawn

ProblemSpec == Init /\ [][ProblemNext]_vars

----------------------------------------------------------------------------
(* The auth manager's state machine: events, listeners, API calls *)

\* No forEach is under way: JavaScript runs each handler to its end before
\* the next event or call begins.
Idle == notify = None

\* The manager and its history as one value.
AuthState == [m |-> auth, h |-> hist]

\* An auth state change r = [m, a, arg] is handled: the fields are set and
\* the forEach over the callbacks begins.
Handled2(r, step) ==
    /\ Len(hist.changes) < MaxChanges
    /\ auth' = r.m
    /\ api' = r.a
    /\ hist' = [hist EXCEPT !.changes = Append(@, r.m.currentUser)]
    /\ notify' = ForEach(r.m.authCallbacks, r.arg)
    /\ aop' = step
    /\ UNCHANGED <<codecVars, streamVars, mgrVars>>

\* The user-loaded event.
UserLoaded(user) ==
    /\ Idle
    /\ Handled2(handleUserAuthenticated(auth, api, user),
                [NoStep EXCEPT !.op = "userLoaded"])
    /\ UNCHANGED renewing

\* The user-unloaded event.
UserUnloaded ==
    /\ Idle
    /\ Handled2(handleUserSignedOut(auth, api), [NoStep EXCEPT !.op = "userUnloaded"])
    /\ UNCHANGED renewing

\* The access-token-expired event: signinSilent() is called.
AccessTokenExpired ==
    /\ Idle
    /\ renewing < MaxRenew
    /\ renewing' = renewing + 1
    /\ aop' = [NoStep EXCEPT !.op = "accessTokenExpired"]
    /\ UNCHANGED <<auth, api, notify, hist, codecVars, streamVars, mgrVars>>

\* signinSilent() was rejected: its catch handler runs.
RenewFailed ==
    /\ Idle
    /\ renewing > 0
    /\ renewing' = renewing - 1
    /\ Handled2(handleUserSignedOut(auth, api), [NoStep EXCEPT !.op = "renewFailed"])

\* signinSilent() was fulfilled: the library raises user-loaded.
RenewSucceeded(user) ==
    /\ Idle
    /\ renewing > 0
    /\ renewing' = renewing - 1
    /\ Handled2(handleUserAuthenticated(auth, api, user),
                [NoStep EXCEPT !.op = "renewSucceeded"])

\* The silent-renew-error event.
SilentRenewError ==
    /\ Idle
    /\ Handled2(handleUserSignedOut(auth, api),
                [NoStep EXCEPT !.op = "silentRenewError"])
    /\ UNCHANGED renewing

\* signOut() whose signoutRedirect() was rejected.
SignOutFailed ==
    /\ Idle
    /\ Handled2(handleUserSignedOut(auth, api), [NoStep EXCEPT !.op = "signOutFailed"])
    /\ UNCHANGED renewing

\* initialize() that finds the session of a user who has not expired.
Initialize(user) ==
    /\ Idle
    /\ Handled2(handleUserAuthenticated(auth, api, user),
                [NoStep EXCEPT !.op = "initialize"])
    /\ UNCHANGED renewing

\* s = [m, h] becomes the manager and its history.
Listening(s) ==
    /\ Len(s.m.authCallbacks) <= MaxCallbacks
    /\ auth' = s.m
    /\ hist' = s.h

\* The forEach calls the callback it has reached, which reacts; the loop
\* moves on or ends.
NotifyStep ==
    /\ ~Idle
    /\ \E react \in React :
        /\ Listening(Called(AuthState, auth.authCallbacks[notify[1].i],
                            Passed(notify[1], auth), react))
        /\ aop' = [op |-> "notify", cb |-> auth.authCallbacks[notify[1].i],
                   react |-> react]
    /\ notify' = Advance(notify[1], auth'.authCallbacks)
    /\ UNCHANGED <<api, renewing, codecVars, streamVars, mgrVars>>

\* onAuthStateChanged(callback), the callback reacting when it is called.
Register(callback, react) ==
    /\ Idle
    /\ Listening(onAuthStateChanged(AuthState, callback, react))
    /\ aop' = [op |-> "onAuthStateChanged", cb |-> callback, react |-> react]
    /\ UNCHANGED <<api, notify, renewing, codecVars, streamVars, mgrVars>>

\* removeAuthStateCallback(callback)
Remove(callback) ==
    /\ Idle
    /\ auth' = removeAuthStateCallback(auth, callback)
    /\ aop' = [NoStep EXCEPT !.op = "removeAuthStateCallback", !.cb = callback]
    /\ UNCHANGED <<api, notify, renewing, hist, codecVars, streamVars, mgrVars>>

\* The API's state changes to a.
Requested(a, step) ==
    /\ Idle
    /\ Len(a.http) <= MaxRequests
    /\ a.inflight <= MaxInflight
    /\ api' = a
    /\ aop' = [NoStep EXCEPT !.op = step]
    /\ UNCHANGED <<auth, notify, renewing, hist, codecVars, streamVars, mgrVars>>

\* submitMathProblemResult(user, problemData), up to its first await.
Submit == Requested(submitMathProblemResult(api), "submitMathProblemResult")

\* The response to a submission arrives and the call goes on.
SubmitResponse ==
    /\ api.inflight > 0
    /\ \E ok \in BOOLEAN : Requested(SubmitResumed(api, ok), "submitResumed")

\* trackGameEvent(user, eventType, data)
TrackGameEvent == Requested(trackGameEvent(api), "trackGameEvent")

UserLoadedAny == \E user \in OidcUsers : UserLoaded(user)

RegisterAny == \E callback \in Callbacks : \E react \in React : Register(callback, react)

RemoveAny2 == \E callback \in Callbacks : Remove(callback)

\* The listeners of the auth manager, and the events that change its state.
ListenerNext ==
    \/ UserLoadedAny
    \/ UserUnloaded
    \/ AccessTokenExpired
    \/ RenewFailed
    \/ SilentRenewError
    \/ RegisterAny
    \/ RemoveAny2
    \/ NotifyStep

ListenerSpec == Init /\ [][ListenerNext]_vars

\* The API calls of a client without listeners, and every way the manager
\* authenticates and signs out.
ApiNext ==
    \/ UserLoadedAny
    \/ UserUnloaded
    \/ AccessTokenExpired
    \/ RenewFailed
    \/ (\E user \in OidcUsers : RenewSucceeded(user))
    \/ SilentRenewError
    \/ SignOutFailed
    \/ (\E user \in OidcUsers : Initialize(user))
    \/ Submit
    \/ SubmitResponse
    \/ TrackGameEvent

ApiSpec == Init /\ [][ApiNext]_vars

----------------------------------------------------------------------------
(* Properties *)

\* A message of the given kind went through serialize, the transport left it
\* alone, and the dispatcher has decoded it.
Decoded(kind) ==
    /\ pc = "received"
    /\ sent.kind = kind
    /\ tampered = "no"

\* C1: MathFeedbackPacket round-trips.  For every payload (isCorrect either
\* way, problemId in 0..65535, xpEarned absent or in 0..65535, totalXP absent
\* or in 0..2^32-1) deserialize of the bytes serialize wrote yields the same
\* isCorrect, problemId, xpEarned and totalXP, and an absent optional field is
\* absent in the result, not zero.
C1_FeedbackRoundTrip ==
    Decoded("MathFeedback") =>
        /\ result.err = "none"
        /\ result.routed = "MathFeedback"
        /\ IsSome(result.data)
        /\ result.data[1].isCorrect = sent.data.isCorrect
        /\ result.data[1].problemId = sent.data.problemId
        /\ result.data[1].xpEarned = sent.data.xpEarned
        /\ result.data[1].totalXP = sent.data.totalXP
        /\ (sent.data.xpEarned = None => result.data[1].xpEarned = None)
        /\ (sent.data.totalXP = None => result.data[1].totalXP = None)

\* The scenario of the specification: correct, XP earned 2, no total XP.
C1_Witness ==
    /\ Decoded("MathFeedback")
    /\ sent.data.isCorrect
    /\ sent.data.xpEarned = Some(2)
    /\ sent.data.totalXP = None
    /\ result.data = Some([isCorrect |-> TRUE, problemId |-> 7,
                           xpEarned |-> Some(2), totalXP |-> None])

\* C2: MathProblemPacket round-trips.  For every payload whose problem and
\* rewardType are at most 32 bytes, rewardCount in 0..255 and problemId in
\* 0..65535, deserialize(serialize(data)) is the same payload.
C2_ProblemRoundTrip ==
    (/\ Decoded("MathProblem")
     /\ Len(sent.data.problem) <= 32
     /\ Len(sent.data.rewardType) <= 32) =>
        /\ result.err = "none"
        /\ result.routed = "MathProblem"
        /\ result.data = Some(sent.data)

\* "3 + 4", "gauze", 3, 7 came back as sent.
C2_Witness ==
    /\ Decoded("MathProblem")
    /\ sent.data = [problem |-> ThreePlusFour, rewardType |-> Gauze,
                    rewardCount |-> 3, problemId |-> 7]
    /\ result.data = Some([problem |-> ThreePlusFour, rewardType |-> Gauze,
                           rewardCount |-> 3, problemId |-> 7])

\* C3: MathAnswerPacket round-trips.  For every answer in -32768..32767
\* (negative ones included) and problemId in 0..65535, deserialize(
\* serialize(data)) has the same answer, with its sign, and the same
\* problemId.
C3_AnswerRoundTrip ==
    Decoded("MathAnswer") =>
        /\ result.err = "none"
        /\ result.routed = "MathAnswer"
        /\ IsSome(result.data)
        /\ result.data[1].answer = sent.data.answer
        /\ result.data[1].problemId = sent.data.problemId

\* A negative answer came back negative.
C3_Witness ==
    /\ Decoded("MathAnswer")
    /\ sent.data.answer = -32768
    /\ result.data = Some([answer |-> -32768, problemId |-> 65535])

----------------------------------------------------------------------------
(* Join *)

\* str holds no '<', one or more bytes other than '>', '>'.
NoMarkup(str) ==
    ~ \E i \in 1..Len(str) : \E j \in (i + 2)..Len(str) :
          /\ str[i] = LT
          /\ str[j] = GT
          /\ \A k \in (i + 1)..(j - 1) : str[k] # GT

\* str has no leading and no trailing whitespace.
Trimmed(str) ==
    str = <<>> \/ (str[1] \notin WhiteSpace /\ str[Len(str)] \notin WhiteSpace)

CleanName(str) == NoMarkup(str) /\ Trimmed(str)

\* Every string of the payload fits its field.
ValidJoin(data) ==
    /\ Len(data.name) <= NameMaxLength
    /\ (IsSome(data.authToken) => Len(data.authToken[1]) <= 256)
    /\ (IsSome(data.studentId) => Len(data.studentId[1]) <= 64)

\* The decoded payload r has every field of d but the name: the optional
\* ones present with d's value or absent as in d, each emote at its slot,
\* the slots d does not have absent.
JoinFieldsKept(d, r) ==
    /\ r.isMobile = d.isMobile
    /\ r.skin = d.skin
    /\ r.badge = d.badge
    /\ r.authToken = d.authToken
    /\ r.studentId = d.studentId
    /\ \A i \in 1..6 : r.emotes[i] = d.emotes[i]
    /\ \A i \in 7..8 : r.emotes[i] = None

\* C4 as stated: JoinPacket round-trips.  For every valid Join payload and
\* each of the 2^10 combinations of its ten flags, deserialize(serialize(
\* data)) reproduces isMobile, name, skin, badge, authToken, studentId and
\* each emote at its slot, and what was absent decodes as absent.
C4_JoinRoundTripAsStated ==
    (Decoded("Join") /\ ValidJoin(sent.data)) =>
        /\ result.err = "none"
        /\ IsSome(result.data)
        /\ JoinFieldsKept(sent.data, result.data[1])
        /\ result.data[1].name = sent.data.name

\* C4, amended: JoinPacket round-trips but for the name's sanitization.  For
\* every valid Join payload and each of the 2^10 combinations of its ten
\* flags, deserialize(serialize(data)) reproduces isMobile, skin, badge,
\* authToken, studentId and each emote at its slot, what was absent decodes
\* as absent, and the name is reproduced when it holds no markup-like
\* substring and no leading or trailing whitespace; any other name decodes
\* to a different, sanitized name.
C4_JoinRoundTrip ==
    (Decoded("Join") /\ ValidJoin(sent.data)) =>
        /\ result.err = "none"
        /\ result.routed = "Join"
        /\ IsSome(result.data)
        /\ JoinFieldsKept(sent.data, result.data[1])
        /\ (CleanName(sent.data.name) => result.data[1].name = sent.data.name)
        /\ (~CleanName(sent.data.name) =>
               /\ result.data[1].name # sent.data.name
               /\ CleanName(result.data[1].name))

\* A payload with all ten flags set and a plain name came back whole.
C4_Witness ==
    /\ Decoded("Join")
    /\ ValidJoin(sent.data)
    /\ sent.data.isMobile
    /\ IsSome(sent.data.badge)
    /\ IsSome(sent.data.authToken)
    /\ IsSome(sent.data.studentId)
    /\ \A i \in 1..6 : IsSome(sent.data.emotes[i])
    /\ CleanName(sent.data.name)
    /\ IsSome(result.data)
    /\ JoinFieldsKept(sent.data, result.data[1])
    /\ result.data[1].name = sent.data.name

----------------------------------------------------------------------------
(* Symmetry and layout *)

\* The bytes on the wire are those serialize wrote for a packet of this kind.
Encoded(kind) ==
    /\ pc \in {"sent", "received"}
    /\ sent.kind = kind
    /\ tampered = "no"

\* C5: read/write symmetry.  For each of the four packets and every payload,
\* the stream primitives deserialize performs on the bytes serialize wrote
\* are, operation for operation, the kinds and widths serialize performed
\* (boolean group, uint8/16/32, int16, string with the same maxLength,
\* reference to the same registry), so deserialize consumes exactly the
\* bytes serialize produced.
C5_ReadWriteSymmetry ==
    \A kind \in Kinds :
        Decoded(kind) =>
            /\ result.err = "none"
            /\ result.ops = wops
            /\ result.pos = Len(wire)

\* A Join with every optional field: fourteen primitives each way.
C5_Witness ==
    /\ Decoded("Join")
    /\ Len(wops) = 14
    /\ result.ops = wops
    /\ result.pos = Len(wire)
    /\ <<"string", 256>> = wops[7]

Count(b) == IF b THEN 1 ELSE 0
OpIf(b, op) == IF b THEN <<op>> ELSE <<>>
BytesIf(b, bs) == IF b THEN bs ELSE <<>>
Prefix(str, n) == SubSeq(str, 1, Min(Len(str), n))

\* The bytes of the references to the emotes present in slots i..6, in slot
\* order.
RECURSIVE EmoteBytes(_, _)
EmoteBytes(emotes, i) ==
    IF i > 6 THEN <<>>
    ELSE BytesIf(IsSome(emotes[i]), <<IndexOf(Emotes, Unwrap(emotes[i]))>>)
         \o EmoteBytes(emotes, i + 1)

\* The bytes of Join's optional fields, in the order badge, authToken,
\* studentId, emotes 0..5, each only when present.
JoinOptionalBytes(d) ==
    BytesIf(IsSome(d.badge), <<IndexOf(Badges, Unwrap(d.badge))>>)
    \o BytesIf(IsSome(d.authToken),
               ToBytes(Len(Prefix(Unwrap(d.authToken), 256)), 2)
               \o Prefix(Unwrap(d.authToken), 256))
    \o BytesIf(IsSome(d.studentId),
               ToBytes(Len(Prefix(Unwrap(d.studentId), 64)), 1)
               \o Prefix(Unwrap(d.studentId), 64))
    \o EmoteBytes(d.emotes, 1)

JoinOptionalOps(d) ==
    OpIf(IsSome(d.badge), <<"Badges", 8>>)
    \o OpIf(IsSome(d.authToken), <<"string", 256>>)
    \o OpIf(IsSome(d.studentId), <<"string", 64>>)
    \o [i \in 1..Cardinality({j \in 1..6 : IsSome(d.emotes[j])}) |-> <<"Emotes", 8>>]

\* Discriminant, group, protocol version, name, skin.
JoinFixedLen(d) == 1 + 2 + 2 + (1 + Len(Prefix(d.name, NameMaxLength))) + 1

\* C6: presence flags gate optional fields.  In MathFeedbackPacket and
\* JoinPacket the boolean group is written and read before any field it
\* governs, and an optional field contributes bytes iff its flag is set: the
\* fields of MathFeedback take 1 (group) + 2 (problemId) + 2 iff xpEarned is
\* present + 4 iff totalXP is present bytes, and Join's optional fields
\* follow in the order badge, authToken, studentId, emotes 0..5.
C6_PresenceFlags ==
    /\ Encoded("MathFeedback") =>
          /\ wops[2] = <<"bool", 8>>
          /\ SubSeq(wops, 4, Len(wops))
                = OpIf(IsSome(sent.data.xpEarned), <<"uint", 16>>)
                  \o OpIf(IsSome(sent.data.totalXP), <<"uint", 32>>)
          /\ Len(wire) - 1 = 1 + 2 + 2 * Count(IsSome(sent.data.xpEarned))
                                   + 4 * Count(IsSome(sent.data.totalXP))
    /\ Decoded("MathFeedback") => result.ops[2] = <<"bool", 8>>
    /\ Encoded("Join") =>
          /\ wops[2] = <<"bool", 16>>
          /\ SubSeq(wops, 6, Len(wops)) = JoinOptionalOps(sent.data)
          /\ SubSeq(wire, JoinFixedLen(sent.data) + 1, Len(wire))
                = JoinOptionalBytes(sent.data)
    /\ Decoded("Join") =>
          /\ result.ops[2] = <<"bool", 16>>
          /\ SubSeq(result.ops, 6, Len(result.ops)) = JoinOptionalOps(sent.data)

\* A MathFeedback with xpEarned and without totalXP: 5 bytes of fields.
C6_Witness ==
    /\ Decoded("MathFeedback")
    /\ IsSome(sent.data.xpEarned)
    /\ ~IsSome(sent.data.totalXP)
    /\ Len(wire) = 6
    /\ wops = <<<<"uint", 8>>, <<"bool", 8>>, <<"uint", 16>>, <<"uint", 16>>>>

----------------------------------------------------------------------------
(* Errors *)

\* C7: truncation safety.  For each packet and every proper prefix of a
\* valid encoding that is shorter than the packet's minimal encoding,
\* decoding raises Truncated and the caller receives no payload, so never
\* one with only some fields populated.
C7_TruncationSafety ==
    (pc = "received" /\ tampered = "cut") =>
        /\ Len(wire) < MinLen(sent.kind)
        /\ result.err = "Truncated"
        /\ result.data = None

\* A MathFeedback cut after its group and half of its problemId.
C7_Witness ==
    /\ pc = "received"
    /\ tampered = "cut"
    /\ sent.kind = "MathFeedback"
    /\ Len(wire) = 3
    /\ result.routed = "MathFeedback"
    /\ result.err = "Truncated"
    /\ result.data = None

Registered == {PacketType[k] : k \in Kinds}

\* C8: dispatcher correctness.  A byte sequence whose leading discriminant
\* is 2 is routed to type 2's decoder whatever bytes follow (and so for each
\* registered discriminant), and one whose leading discriminant is not
\* registered (99) raises UnknownDiscriminant, invokes no decoder, and the
\* remaining bytes of the message are discarded.
C8_Dispatch ==
    (pc = "received" /\ sent.kind \in Kinds /\ Len(wire) >= 1) =>
        /\ wire[1] = 2 => result.routed = "MathProblem"
        /\ \A k \in Kinds : wire[1] = PacketType[k] => result.routed = k
        /\ wire[1] \notin Registered =>
              /\ result.err = "UnknownDiscriminant"
              /\ result.routed = "none"
              /\ result.data = None
              /\ result.ops = <<<<"uint", 8>>>>
              /\ result.pos = Len(wire)

\* A MathFeedback message arrived under discriminant 99.
C8_Witness ==
    /\ pc = "received"
    /\ tampered = "retag"
    /\ sent.kind = "MathFeedback"
    /\ wire[1] = 99
    /\ Len(wire) > 1
    /\ result.err = "UnknownDiscriminant"
    /\ result.routed = "none"

\* C9: registry codec.  For a registry of N definitions, writeToStream then
\* readFromStream returns the same definition for each of the N positions,
\* and decoding an index at or beyond N raises RegistryIndexOutOfRange
\* instead of returning a definition.
C9_RegistryCodec ==
    (pc = "received" /\ sent.kind = "Ref") =>
        LET reg == RegistryNamed(sent.data[1].registry)
            def == sent.data[1].def
            idx == FromBytes(wire)
        IN  /\ idx < Len(reg.defs) =>
                  /\ result.err = "none"
                  /\ result.data = Some(def)
                  /\ reg.defs[idx + 1] = def
            /\ idx >= Len(reg.defs) =>
                  /\ result.err = "RegistryIndexOutOfRange"
                  /\ result.data = None
            /\ \A i \in 1..Len(reg.defs) :
                  (def = reg.defs[i]) => (idx = i - 1 /\ result.data = Some(def))

\* The index N itself, the first beyond the registry, was refused.
C9_Witness ==
    /\ pc = "received"
    /\ sent.kind = "Ref"
    /\ FromBytes(wire) = NDefs
    /\ result.err = "RegistryIndexOutOfRange"
    /\ result.data = None

\* C10: bounded strings.  For every string field of maximum length L (32 for
\* the puzzle and the reward kind, 256 for the auth token, 64 for the student
\* id) and every input longer than L bytes, writeString(L, s) then
\* readString(L) yields exactly the first L bytes of s, never more, and the
\* field after it is still decoded correctly.
C10_BoundedStrings ==
    /\ (/\ Decoded("MathProblem")
        /\ (Len(sent.data.problem) > 32 \/ Len(sent.data.rewardType) > 32)) =>
          /\ result.err = "none"
          /\ IsSome(result.data)
          /\ result.data[1].problem = Prefix(sent.data.problem, 32)
          /\ result.data[1].rewardType = Prefix(sent.data.rewardType, 32)
          /\ Len(result.data[1].problem) <= 32
          /\ Len(result.data[1].rewardType) <= 32
          /\ result.data[1].rewardCount = sent.data.rewardCount
          /\ result.data[1].problemId = sent.data.problemId
    /\ (/\ Decoded("Join")
        /\ \/ (IsSome(sent.data.authToken) /\ Len(Unwrap(sent.data.authToken)) > 256)
           \/ (IsSome(sent.data.studentId) /\ Len(Unwrap(sent.data.studentId)) > 64)) =>
          /\ result.err = "none"
          /\ IsSome(result.data)
          /\ IsSome(sent.data.authToken) =>
                /\ result.data[1].authToken = Some(Prefix(Unwrap(sent.data.authToken), 256))
                /\ Len(Unwrap(result.data[1].authToken)) <= 256
          /\ IsSome(sent.data.studentId) =>
                /\ result.data[1].studentId = Some(Prefix(Unwrap(sent.data.studentId), 64))
                /\ Len(Unwrap(result.data[1].studentId)) <= 64
          /\ \A i \in 1..6 : result.data[1].emotes[i] = sent.data.emotes[i]

\* An over-long puzzle came back as its first 32 bytes, "gauze" after it.
C10_Witness ==
    /\ Decoded("MathProblem")
    /\ Len(sent.data.problem) > 32
    /\ sent.data.rewardType = Gauze
    /\ IsSome(result.data)
    /\ Len(result.data[1].problem) = 32
    /\ result.data[1].problem = SubSeq(sent.data.problem, 1, 32)
    /\ result.data[1].rewardType = Gauze

----------------------------------------------------------------------------
(* The stream *)

\* The flags of a MathFeedback payload, in the order serialize hands them to
\* the group.
FeedbackFlags(d) == <<d.isCorrect, IsSome(d.xpEarned), IsSome(d.totalXP)>>

\* The ten flags of a Join payload, in the order serialize hands them to the
\* group.
JoinFlags(d) ==
    <<d.isMobile, IsSome(d.badge), IsSome(d.authToken), IsSome(d.studentId)>>
    \o [i \in 1..6 |-> IsSome(d.emotes[i])]

IsGroup(item) == item[1] \in {"bool", "bool2"}

\* C11: boolean group ordering.  For every group of n flags (n <= 8 with
\* writeBooleanGroup, n <= 16 with writeBooleanGroup2) and every assignment
\* of the flags, the matching read returns the same values at the same
\* positions as the write was given, never permuted; in particular the three
\* flags of MathFeedback and the ten flags of Join are recovered at their
\* written positions.
C11_GroupOrdering ==
    /\ \A i \in 1..Len(sbuf.got) :
          IsGroup(sbuf.items[i]) =>
              /\ sbuf.got[i].name = sbuf.items[i][1]
              /\ sbuf.got[i].v = sbuf.items[i][2]
              /\ \A k \in 1..Len(sbuf.items[i][2]) :
                    sbuf.got[i].v[k] = sbuf.items[i][2][k]
    /\ Decoded("MathFeedback") =>
          /\ result.err = "none"
          /\ IsSome(result.data)
          /\ FeedbackFlags(result.data[1]) = FeedbackFlags(sent.data)
    /\ Decoded("Join") =>
          /\ result.err = "none"
          /\ IsSome(result.data)
          /\ JoinFlags(result.data[1]) = JoinFlags(sent.data)

\* (true, false, true) was written, as a one-byte group, and read back.
C11_Witness ==
    /\ sbuf.phase = "reading"
    /\ sbuf.items = << <<"bool", TFT>> >>
    /\ Len(sbuf.got) = 1
    /\ sbuf.got[1].v = <<TRUE, FALSE, TRUE>>

\* The bytes the item takes on a stream with room for it.
ItemLen(item) == Len(WriteItem(NewWriter(Capacity), item).bytes)

\* C12: a failed stream primitive is all-or-nothing.  When a write fails with
\* CapacityExceeded or a read fails with Truncated, the byte cursor and the
\* bit cursor are where they were before the operation and no byte of the
\* buffer has been changed by it.
C12_AllOrNothing ==
    sbuf.phase = "failed" =>
        /\ sbuf.s.err \in {"CapacityExceeded", "Truncated"}
        /\ sbuf.s.pos = sbuf.before.pos
        /\ sbuf.s.bit = sbuf.before.bit
        /\ sbuf.s.bytes = sbuf.before.bytes

\* A two-byte write failed with one byte of room left, after four bytes had
\* been written.
C12_Witness ==
    /\ sbuf.phase = "failed"
    /\ sbuf.s.err = "CapacityExceeded"
    /\ sbuf.op = <<"uint16", 65535>>
    /\ sbuf.s.cap = SmallCapacity
    /\ sbuf.before.pos = SmallCapacity - 1
    /\ sbuf.s.pos = sbuf.before.pos
    /\ sbuf.s.bytes = sbuf.before.bytes

\* C13: stream bounds.  After any sequence of writes and reads the byte
\* cursor is at most the capacity of the buffer, a write that would pass the
\* capacity fails instead, and a read never moves the cursor past the
\* high-water mark the producer wrote up to.
C13_StreamBounds ==
    /\ sbuf.s.pos <= sbuf.s.cap
    /\ Len(sbuf.s.bytes) <= sbuf.s.cap
    /\ (sbuf.phase = "writing" /\ sbuf.op[1] # "none") =>
          sbuf.before.pos + ItemLen(sbuf.op) <= sbuf.s.cap
    /\ (sbuf.phase = "failed" /\ sbuf.s.err = "CapacityExceeded") =>
          sbuf.before.pos + ItemLen(sbuf.op) > sbuf.s.cap
    /\ (sbuf.phase = "reading" \/ sbuf.s.err = "Truncated") =>
          /\ sbuf.mark = Len(sbuf.s.bytes)
          /\ sbuf.s.pos <= sbuf.mark

\* A four-byte read was refused with fewer than four bytes left before the
\* mark.
C13_Witness ==
    /\ sbuf.phase = "failed"
    /\ sbuf.s.err = "Truncated"
    /\ sbuf.op = WideRead
    /\ sbuf.mark - sbuf.s.pos \in 1..3
    /\ sbuf.s.pos > 0

\* C14: after every completed boolean-group write or read, of the one-byte
\* or the two-byte variant, the sub-byte bit offset is 0 and the cursor has
\* moved by whole bytes, so the byte-level primitive that follows starts on
\* a byte boundary.
C14_GroupAligned ==
    /\ (sbuf.phase \in {"writing", "reading"} /\ IsGroup(sbuf.op)) =>
          /\ sbuf.s.bit = 0
          /\ sbuf.s.pos = sbuf.before.pos + (IF sbuf.op[1] = "bool" THEN 1 ELSE 2)
    /\ (sbuf.phase \in {"writing", "reading"} /\ sbuf.op[1] # "none") =>
          sbuf.before.bit = 0
    /\ (sbuf.phase = "writing" /\ sbuf.op[1] # "none") =>
          /\ sbuf.s.pos = sbuf.before.pos + ItemLen(sbuf.op)
          /\ SubSeq(sbuf.s.bytes, sbuf.before.pos + 1, sbuf.s.pos)
                = WriteItem(NewWriter(Capacity), sbuf.op).bytes

\* A 16-bit integer was written right after a three-flag group, at byte 1.
C14_Witness ==
    /\ sbuf.phase = "writing"
    /\ sbuf.items = << <<"bool", TFT>>, <<"uint16", 65535>> >>
    /\ sbuf.before.bit = 0
    /\ sbuf.before.pos = 1
    /\ sbuf.s.bytes = <<5, 255, 255>>

----------------------------------------------------------------------------
(* Back-to-back packets *)

\* The payload decoded is the payload sent: for a Join, every field but the
\* name.
SamePayload(kind, d, r) ==
    IF kind = "Join" THEN JoinFieldsKept(d, r) ELSE r = d

\* Reads so far returned the packets written, in order, each read ending
\* where the producer ended the packet.
InSequence ==
    \A i \in 1..Len(sbuf.got) :
        /\ sbuf.got[i].v.routed = sbuf.items[i][1]
        /\ IsSome(sbuf.got[i].v.data)
        /\ SamePayload(sbuf.items[i][1], sbuf.items[i][2], sbuf.got[i].v.data[1])
        /\ sbuf.got[i].pos = sbuf.ends[i]

\* The consumer has the buffer: it is reading, or a read of it has failed.
Consuming ==
    \/ sbuf.phase = "reading"
    \/ sbuf.phase = "failed" /\ sbuf.s.err # "CapacityExceeded"

\* C15 as stated: back-to-back sequencing.  When one producer serializes
\* packets p1..pk, of any of the four types, one after another into one
\* buffer, decoding the buffer from the start k times yields payloads equal
\* to p1..pk in that order, each decoder stopping where the next packet
\* begins.
C15_BackToBackAsStated ==
    Consuming =>
        /\ sbuf.s.err = "none"
        /\ InSequence
        /\ \A i \in 1..Len(sbuf.got) :
              sbuf.items[i][1] = "Join" =>
                  sbuf.got[i].v.data[1].name = sbuf.items[i][2].name

\* C15, amended: back-to-back sequencing.  When one producer serializes
\* packets p1..pk, of any of the four types, one after another into one
\* buffer, decoding the buffer from the start k times yields payloads equal
\* to p1..pk in that order, but for the name of a Join, which is decoded
\* sanitized, each decoder stopping where the next packet begins.
C15_BackToBack ==
    Consuming =>
        /\ sbuf.s.err = "none"
        /\ InSequence
        /\ \A i \in 1..Len(sbuf.got) :
              sbuf.items[i][1] = "Join" =>
                  sbuf.got[i].v.data[1].name = SanitizeName(sbuf.items[i][2].name)

\* A MathFeedback, a Join and a MathAnswer were decoded from one buffer, the
\* last read ending at the end of the data.
C15_Witness ==
    /\ sbuf.phase = "reading"
    /\ Len(sbuf.items) = 3
    /\ Len(sbuf.got) = 3
    /\ sbuf.items[1][1] = "MathFeedback"
    /\ sbuf.items[2][1] = "Join"
    /\ sbuf.items[3][1] = "MathAnswer"
    /\ sbuf.got[3].v.data = Some([answer |-> -1, problemId |-> 65535])
    /\ sbuf.got[3].pos = sbuf.mark

----------------------------------------------------------------------------
(* Display names *)

\* The name field as it is on the wire of a Join message: after the
\* discriminant, the group and the protocol version.
NameOnWire == SubSeq(wire, 7, 6 + wire[6])

\* C16: Join display-name sanitization.  For every name on the wire, the
\* name JoinPacket.deserialize produces holds no markup-like substring ('<',
\* one or more characters other than '>', '>'), has no leading or trailing
\* whitespace, and is left unchanged by the same sanitization applied again.
C16_NameSanitized ==
    Decoded("Join") =>
        /\ result.err = "none"
        /\ IsSome(result.data)
        /\ NoMarkup(result.data[1].name)
        /\ Trimmed(result.data[1].name)
        /\ SanitizeName(result.data[1].name) = result.data[1].name
        /\ NameOnWire = sent.data.name

\* "<a> a" was on the wire and "a" came out.
C16_Witness ==
    /\ Decoded("Join")
    /\ NameOnWire = <<60, 97, 62, 32, 97>>
    /\ IsSome(result.data)
    /\ result.data[1].name = <<97>>


\* The problem active for player p.
Active(p) == activeProblem[p][1]

\* This step is validateAnswer for player p, called with the id and the
\* answer of p's active problem.
CorrectCall(p) ==
    /\ last'.op = "validateAnswer"
    /\ last'.player = p
    /\ IsSome(activeProblem[p])
    /\ last'.problemId = Active(p).problemId
    /\ last'.answer = Active(p).answer

\* C17: for every problem issued, the problemId the client decodes from the
\* MathProblem packet equals the problemId stored for the player, and
\* validateAnswer with the correct answer and the id the client echoes
\* returns true.
C17_Correlation ==
    [][\A p \in Players :
        /\ ( /\ IsSome(client'[p])
             /\ IsSome(activeProblem'[p])
             /\ client'[p][1].packet = MathProblemPacketOf(activeProblem'[p][1]) )
           => client'[p][1].data.problemId = activeProblem'[p][1].problemId
        /\ ( /\ last'.op = "validateAnswer"
             /\ last'.player = p
             /\ IsSome(activeProblem[p])
             /\ last'.packet = Some(MathProblemPacketOf(Active(p)))
             /\ last'.answer = Active(p).answer )
           => last'.ret = Some(TRUE)]_vars

\* C18: validateAnswer called with the id and the answer of the player's
\* active problem returns true, adds exactly rewardCount to the inventory
\* count of rewardType, sets dirty.items, replaces the problem by a new
\* active one with a larger problemId, and sends the player exactly one
\* MathProblem packet, which carries the new problem's fields.
C18_CorrectAnswer ==
    [][\A p \in Players :
        CorrectCall(p) =>
            /\ last'.ret = Some(TRUE)
            /\ players'[p].items =
                   [players[p].items EXCEPT
                       ![Active(p).rewardType] = @ + Active(p).rewardCount]
            /\ players'[p].dirty
            /\ IsSome(activeProblem'[p])
            /\ activeProblem'[p][1].problemId > Active(p).problemId
            /\ players'[p].packets =
                   Append(players[p].packets,
                          MathProblemPacketOf(activeProblem'[p][1]))
            /\ \A q \in Players \ {p} : players'[q] = players[q]]_vars

\* A correct answer was accepted: the player holds the reward and a later
\* problem, and the packet of that problem is the last one sent to it.
C18_Witness ==
    /\ last.op = "validateAnswer"
    /\ last.ret = Some(TRUE)
    /\ \E t \in ItemTypes : players[last.player].items[t] > 0
    /\ players[last.player].dirty
    /\ IsSome(activeProblem[last.player])
    /\ activeProblem[last.player][1].problemId > last.problemId
    /\ Len(players[last.player].packets) >= 2
    /\ players[last.player].packets[Len(players[last.player].packets)] =
           MathProblemPacketOf(activeProblem[last.player][1])

\* What the rewards noted for the problems ids add to player p's count of
\* item t.
RECURSIVE RewardTotal(_, _, _)
RewardTotal(ids, p, t) ==
    IF ids = {} THEN 0
    ELSE LET id == CHOOSE i \in ids : TRUE
             r == rewards[id]
             own == IF r.player = p /\ r.problem.rewardType = t
                    THEN r.times * r.problem.rewardCount
                    ELSE 0
         IN  own + RewardTotal(ids \ {id}, p, t)

\* C19: whatever calls were made for whatever players, each issued problemId
\* has caused at most one inventory reward, and the inventories hold what
\* those rewards add up to.
C19_OneRewardPerProblem ==
    /\ \A id \in DOMAIN rewards :
        /\ rewards[id].times = 1
        /\ rewards[id].problem.problemId = id
        /\ id < nextProblemId
    /\ \A p \in Players : \A t \in ItemTypes :
        players[p].items[t] = RewardTotal(DOMAIN rewards, p, t)

\* The answer accepted for a problem was delivered again, and rejected.
C19_Witness ==
    /\ last.op = "validateAnswer"
    /\ last.ret = Some(FALSE)
    /\ last.problemId \in DOMAIN rewards
    /\ rewards[last.problemId].player = last.player
    /\ rewards[last.problemId].problem.answer = last.answer
    /\ players[last.player].items[rewards[last.problemId].problem.rewardType]
           = rewards[last.problemId].problem.rewardCount

\* C20: when validateAnswer returns false, the player has no active problem,
\* the problemId differs from the active problem's id or the answer is
\* wrong; the inventories, the active problems and nextProblemId are
\* unchanged and no packet is sent.
C20_RejectedChangesNothing ==
    [][(last'.op = "validateAnswer" /\ last'.ret = Some(FALSE)) =>
        /\ \/ activeProblem[last'.player] = None
           \/ Active(last'.player).problemId # last'.problemId
           \/ Active(last'.player).answer # last'.answer
        /\ players' = players
        /\ activeProblem' = activeProblem
        /\ nextProblemId' = nextProblemId]_vars

\* A wrong answer to the active problem was rejected, and the problem is
\* still there to be answered.
C20_Witness ==
    /\ last.op = "validateAnswer"
    /\ last.ret = Some(FALSE)
    /\ IsSome(activeProblem[last.player])
    /\ Active(last.player).problemId = last.problemId
    /\ Active(last.player).answer # last.answer
    /\ players[last.player].packets # <<>>


\* This step issues a problem: it is generateProblem, initializeProblem, or
\* a validateAnswer that returns true.
Issues ==
    \/ last'.op \in {"generateProblem", "initializeProblem"}
    \/ last'.op = "validateAnswer" /\ last'.ret = Some(TRUE)

\* The ids of the problems active now.
ActiveIds == {Active(p).problemId : p \in {q \in Players : IsSome(activeProblem[q])}}

\* C21: the first problemId issued is 1, every problem issued has the id
\* one greater than the one issued before it, whichever player it is for,
\* and no two problems issued share an id: the ids issued are those below
\* nextProblemId, and no two players' active problems have the same one.
C21_IdsIncreasing ==
    /\ nextProblemId = 1
    /\ [][/\ Issues =>
                /\ IsSome(activeProblem'[last'.player])
                /\ activeProblem'[last'.player][1].problemId = nextProblemId
                /\ nextProblemId' = nextProblemId + 1
          /\ ~Issues => nextProblemId' = nextProblemId
          /\ \A p, q \in Players :
                ( /\ p # q
                  /\ IsSome(activeProblem'[p])
                  /\ IsSome(activeProblem'[q]) )
                => activeProblem'[p][1].problemId # activeProblem'[q][1].problemId
          /\ \A p \in Players :
                IsSome(activeProblem'[p])
                => activeProblem'[p][1].problemId \in 1..(nextProblemId' - 1)]_vars

\* Three problems were issued, to both players; they hold the last two.
C21_Witness ==
    /\ nextProblemId = 4
    /\ last.op = "generateProblem"
    /\ ActiveIds = {2, 3}

\* C22: a player has at most one active problem; after generateProblem
\* replaced it, an answer with any other id than the new problem's, so with
\* the superseded one or with the id of another player's problem, is
\* rejected; and a call for one player changes neither the active problem
\* nor the inventory of another.
C22_OnePerPlayerIsolated ==
    [][/\ \A p \in Players : Len(activeProblem'[p]) <= 1
       /\ last'.op = "generateProblem" =>
            /\ IsSome(activeProblem'[last'.player])
            /\ activeProblem'[last'.player] # activeProblem[last'.player]
       /\ ( /\ last'.op = "validateAnswer"
            /\ \/ activeProblem[last'.player] = None
               \/ last'.problemId # Active(last'.player).problemId )
          => last'.ret = Some(FALSE)
       /\ \A q \in Players \ {last'.player} :
            /\ activeProblem'[q] = activeProblem[q]
            /\ players'[q] = players[q]]_vars

\* An answer right for another player's active problem, with that problem's
\* id, was rejected, after the answering player's own problem had been
\* replaced.
C22_Witness ==
    /\ last.op = "validateAnswer"
    /\ last.ret = Some(FALSE)
    /\ IsSome(activeProblem[last.player])
    /\ Active(last.player).problemId > last.problemId + 1
    /\ \E q \in Players \ {last.player} :
        /\ IsSome(activeProblem[q])
        /\ Active(q).problemId = last.problemId
        /\ Active(q).answer = last.answer


\* The number a string of decimal digits shows.
RECURSIVE Number(_)
Number(str) ==
    IF str = <<>> THEN 0
    ELSE 10 * Number(SubSeq(str, 1, Len(str) - 1)) + (str[Len(str)] - 48)

\* The displayed expression "left op right" taken apart at its two blanks.
Shown(str) ==
    LET blanks == {i \in 1..Len(str) : str[i] = 32}
        first == CHOOSE i \in blanks : \A j \in blanks : i <= j
        second == CHOOSE i \in blanks : \A j \in blanks : j <= i
    IN  [left |-> Number(SubSeq(str, 1, first - 1)),
         op |-> SubSeq(str, first, second),
         right |-> Number(SubSeq(str, second + 1, Len(str)))]

\* The value of the displayed expression; a division that leaves a
\* remainder has none among the integers, shown as -1.
Value(str) ==
    LET e == Shown(str)
    IN  CASE e.op = Plus -> e.left + e.right
          [] e.op = Minus -> e.left - e.right
          [] e.op = Times -> e.left * e.right
          [] e.op = Divide ->
                IF e.right # 0 /\ e.left % e.right = 0 THEN e.left \div e.right ELSE -1
          [] OTHER -> -1

\* The problems active now.
ActiveProblems == {Active(p) : p \in {q \in Players : IsSome(activeProblem[q])}}

\* C23: the stored answer of every generated problem is the value of the
\* expression displayed; a subtraction shows the larger operand first and
\* has a non-negative answer; a division divides exactly, with divisor and
\* answer in 1..9.
C23_WellFormed ==
    \A a \in ActiveProblems :
        /\ a.answer = Value(a.problem)
        /\ Shown(a.problem).op \in {Plus, Minus, Times, Divide}
        /\ Shown(a.problem).op = Minus =>
            /\ Shown(a.problem).left >= Shown(a.problem).right
            /\ a.answer >= 0
        /\ Shown(a.problem).op = Divide =>
            /\ Shown(a.problem).left = a.answer * Shown(a.problem).right
            /\ Shown(a.problem).right \in 1..9
            /\ a.answer \in 1..9

\* A subtraction was generated; it shows "9 - 2".
C23_Witness ==
    \E a \in ActiveProblems :
        /\ last.op = "generateProblem"
        /\ a.problem = Digits(9) \o Minus \o Digits(2)
        /\ a.answer = 7

\* The range of rewardCount for each rewardType.
CountRange(itemType) ==
    CASE itemType = ItemAt(0) -> 2..5
      [] itemType \in {ItemAt(1), ItemAt(2), ItemAt(3)} -> {1}
      [] itemType = ItemAt(4) -> 5..15
      [] itemType \in {ItemAt(5), ItemAt(6), ItemAt(7)} -> 10..30
      [] itemType \in {ItemAt(8), ItemAt(9)} -> 1..2
      [] OTHER -> {}

\* C24: every generated problem has its answer in 0..81, which the signed
\* 16-bit field of MathAnswer carries unchanged; its rewardType is one of the
\* ten consumables, of at most 32 bytes; its rewardCount is in the range of
\* that type, and in 1..30; its problem string is of at most 32 bytes; and
\* the MathProblem packet made of it decodes to the same fields.
C24_FitsWire ==
    \A a \in ActiveProblems :
        /\ a.answer \in 0..81
        /\ ServerDecode([answer |-> a.answer, problemId |-> a.problemId])[1].answer
               = a.answer
        /\ a.rewardType \in ItemTypes
        /\ Len(consumableItems) = 10
        /\ Len(a.rewardType) <= 32
        /\ a.rewardCount \in CountRange(a.rewardType)
        /\ a.rewardCount \in 1..30
        /\ Len(a.problem) <= 32
        /\ LET decoded == ClientDecode(MathProblemPacketOf(a))[1]
           IN  /\ decoded.problem = a.problem
               /\ decoded.rewardType = a.rewardType
               /\ decoded.rewardCount = a.rewardCount
               /\ decoded.problemId = a.problemId

\* The largest answer with the largest count was generated: "9 x 9" for 30
\* rounds of 9mm.
C24_Witness ==
    \E a \in ActiveProblems :
        /\ last.op = "generateProblem"
        /\ a.problem = Digits(9) \o Times \o Digits(9)
        /\ a.answer = 81
        /\ a.rewardType = ItemAt(7)
        /\ a.rewardCount = 30


\* The callbacks registered now, and how often c is among them.
Listeners == {auth.authCallbacks[i] : i \in 1..Len(auth.authCallbacks)}

Occurs(list, c) == Cardinality({i \in 1..Len(list) : list[i] = c})

\* What callback c is to be called with since it was registered: the user
\* current then, and the user of every change handled since.
Due(c) ==
    <<hist.regAt[c].user>>
        \o SubSeq(hist.changes, hist.regAt[c].at + 1, Len(hist.changes))

\* C25: once the handler under way has ended, a callback registered by one
\* onAuthStateChanged call has been called with the user current at that
\* call and then once with the user of every authentication and sign-out
\* handled since, in that order, and no more.
C25_NotifiedOfEveryChange ==
    Idle =>
        \A c \in Listeners :
            (hist.regAt[c].once /\ Occurs(auth.authCallbacks, c) = 1)
            => hist.heard[c] = Due(c)

\* C26: once the handler under way has ended, every callback registered was
\* called last with what getCurrentUser() returns.
C26_ListenersConsistent ==
    Idle =>
        \A c \in Listeners :
            /\ hist.heard[c] # <<>>
            /\ hist.heard[c][Len(hist.heard[c])] = getCurrentUser(auth)

\* The list as it is when the callback called in this step reacts.
ListAtReaction ==
    IF aop'.op = "onAuthStateChanged"
    THEN Append(auth.authCallbacks, aop'.cb)
    ELSE auth.authCallbacks

\* This step registers callback c, by a call or from inside a callback.
Registers(c) ==
    \/ aop'.op = "onAuthStateChanged" /\ aop'.cb = c
    \/ aop'.op \in {"onAuthStateChanged", "notify"} /\ aop'.react = <<"register", c>>

\* C27: removeAuthStateCallback of a callback registered once leaves it
\* unregistered and the others as they were; of a callback not registered, it
\* leaves the list unchanged; and only registered callbacks are called, so
\* the removed one is not called by any later change until it is registered
\* again.
C27_RemovedIsSilent ==
    [][/\ aop'.op = "removeAuthStateCallback" =>
            /\ Occurs(auth.authCallbacks, aop'.cb) = 1 =>
                /\ Occurs(auth'.authCallbacks, aop'.cb) = 0
                /\ \A c \in Callbacks \ {aop'.cb} :
                    Occurs(auth'.authCallbacks, c) = Occurs(auth.authCallbacks, c)
            /\ Occurs(auth.authCallbacks, aop'.cb) = 0 =>
                auth'.authCallbacks = auth.authCallbacks
       /\ ( /\ aop'.op \in {"onAuthStateChanged", "notify"}
            /\ aop'.react[1] = "remove"
            /\ Occurs(ListAtReaction, aop'.react[2]) = 1 )
          => Occurs(auth'.authCallbacks, aop'.react[2]) = 0
       /\ \A c \in Callbacks :
            /\ hist'.heard[c] # hist.heard[c] => (c \in Listeners \/ Registers(c))
            /\ ( /\ Occurs(auth'.authCallbacks, c) > 0
                 /\ Occurs(auth.authCallbacks, c) = 0 )
               => Registers(c)]_vars

\* A callback that was registered and called is removed, and another one has
\* just been notified of a change the removed one was not called for.
C27_Witness ==
    /\ aop.op = "notify"
    /\ \E c \in Callbacks \ (Listeners \cup {aop.cb}) :
        /\ hist.heard[c] # <<>>
        /\ hist.regAt[c].once
        /\ Len(hist.heard[c]) + hist.regAt[c].at <= Len(hist.changes)
        /\ Len(hist.heard[aop.cb]) > Len(hist.heard[c])

\* The steps in which the manager handles a sign-out.
SignOutSteps == {"userUnloaded", "silentRenewError", "renewFailed", "signOutFailed"}

\* C28: when the manager has handled a sign-out, getCurrentUser() returns
\* null and the API's token is not usable; and from then on, until the
\* manager sets a token again, no HTTP request is sent.
C28_NoTrafficAfterSignOut ==
    [][/\ aop'.op \in SignOutSteps =>
            /\ getCurrentUser(auth') = None
            /\ Falsy(api'.accessToken)
       /\ Len(api'.http) > Len(api.http) => api.accessToken # Some(<<>>)]_vars

====
